---------------------------- MODULE Spec2Model ----------------------------
(***************************************************************************)
(* SQLAlchemy export of a ChartDB diagram (exportSQLAlchemy) and the       *)
(* dialog that calls it.                                                   *)
(*                                                                         *)
(* Text that comes from the diagram (table names, field names, type        *)
(* names) is a sequence of one-character strings, so that the regular      *)
(* expressions of the source (casing, sanitising, pluralising) are         *)
(* computed character by character.  Text that the source builds from a    *)
(* fixed template is a record holding the template's holes: two such       *)
(* records are equal exactly when the two rendered texts are equal, as     *)
(* long as the names hold no double quote or bracket.                      *)
(***************************************************************************)
EXTENDS Integers, Sequences, FiniteSets, TLC

VARIABLES
    diagram,          \* currentDiagram: the value handed to exportSQLAlchemy
    cascade,          \* the dialog's cascade input
    code,             \* the dialog's code state: <<>> (undefined) or <<text>>
    isLoading,        \* the dialog's isLoading state
    fkByTableField,   \* the accumulators of the most recent invocation
    m2m,
    enumTypeMap,
    dialectSymbols,
    outcome,          \* how the last call ended: "none", "returned", "raised"
    observed          \* an earlier call and its result, kept by a caller

vars == <<diagram, cascade, code, isLoading, outcome, fkByTableField, m2m,
          enumTypeMap, dialectSymbols, observed>>

-----------------------------------------------------------------------------
(* Characters and strings *)

Lowers == <<"a","b","c","d","e","f","g","h","i","j","k","l","m",
            "n","o","p","q","r","s","t","u","v","w","x","y","z">>
Uppers == <<"A","B","C","D","E","F","G","H","I","J","K","L","M",
            "N","O","P","Q","R","S","T","U","V","W","X","Y","Z">>
Digits == <<"0","1","2","3","4","5","6","7","8","9">>

Range(s) == {s[i] : i \in DOMAIN s}

toUpperCase(c) ==
    IF c \in Range(Lowers)
    THEN Uppers[CHOOSE i \in DOMAIN Lowers : Lowers[i] = c]
    ELSE c

toLowerCaseChar(c) ==
    IF c \in Range(Uppers)
    THEN Lowers[CHOOSE i \in DOMAIN Uppers : Uppers[i] = c]
    ELSE c

\* A normalisation that would keep the case of a type name.
keepCase(s) == s

toLowerCase(s) == [i \in DOMAIN s |-> toLowerCaseChar(s[i])]

endsWith(s, suffix) ==
    /\ Len(s) >= Len(suffix)
    /\ SubSeq(s, Len(s) - Len(suffix) + 1, Len(s)) = suffix

startsWith(s, prefix) ==
    /\ Len(s) >= Len(prefix)
    /\ SubSeq(s, 1, Len(prefix)) = prefix

includes(s, part) ==
    \E i \in 1..(Len(s) - Len(part) + 1) : SubSeq(s, i, i + Len(part) - 1) = part

\* s.slice(0, -n)
sliceEnd(s, n) == SubSeq(s, 1, Len(s) - n)

\* The decimal text of a non-negative integer, as in a template literal.
RECURSIVE decimal(_)
decimal(n) ==
    IF n < 10 THEN <<Digits[n + 1]>>
    ELSE decimal(n \div 10) \o <<Digits[(n % 10) + 1]>>

\* A string literal of the source, as the sequence of its characters.
T(text) == [i \in 1..Len(text) |-> SubSeq(text, i, i)]

-----------------------------------------------------------------------------
(* Naming normalizer *)

\* [_\-\s]
IsSeparator(c) == c \in {"_", "-", " "}

RECURSIVE dropSeparators(_)
dropSeparators(s) ==
    IF s # <<>> /\ IsSeparator(Head(s)) THEN dropSeparators(Tail(s)) ELSE s

\* name.replace(/[_\-\s]+(.)?/g, (_, c) => (c ? c.toUpperCase() : ''))
RECURSIVE replaceSeparatorRuns(_)
replaceSeparatorRuns(s) ==
    IF s = <<>> THEN <<>>
    ELSE IF IsSeparator(Head(s))
         THEN LET r == dropSeparators(s)
              IN  IF r = <<>> THEN <<>>
                  ELSE <<toUpperCase(Head(r))>> \o replaceSeparatorRuns(Tail(r))
         ELSE <<Head(s)>> \o replaceSeparatorRuns(Tail(s))

toPascalCase(name) ==
    LET r == replaceSeparatorRuns(name)
    IN  IF r = <<>> THEN r ELSE <<toUpperCase(Head(r))>> \o Tail(r)

\* [a-zA-Z0-9_]
IsIdentifierChar(c) ==
    c \in Range(Lowers) \cup Range(Uppers) \cup Range(Digits) \cup {"_"}

pyIdentifier(name) ==
    [i \in DOMAIN name |-> IF IsIdentifierChar(name[i]) THEN name[i] ELSE "_"]

IsVowel(c) == c \in {"a", "e", "i", "o", "u"}

pluralize(name) ==
    LET lower == toLowerCase(name)
    IN  IF \/ endsWith(lower, <<"s">>) \/ endsWith(lower, <<"x">>)
           \/ endsWith(lower, <<"z">>) \/ endsWith(lower, <<"c","h">>)
           \/ endsWith(lower, <<"s","h">>)
        THEN name \o <<"e","s">>
        ELSE IF /\ Len(lower) >= 2
                /\ lower[Len(lower)] = "y"
                /\ ~IsVowel(lower[Len(lower) - 1])
             THEN sliceEnd(name, 1) \o <<"i","e","s">>
             ELSE name \o <<"s">>

relAttrName(tableName) ==
    IF endsWith(tableName, <<"s">>) THEN pyIdentifier(tableName)
    ELSE pyIdentifier(pluralize(tableName))

-----------------------------------------------------------------------------
(* Type mapper *)

NoSymbols == [postgres |-> {}, mysql |-> {}, mssql |-> {}]

AddSymbols(a, b) ==
    [postgres |-> a.postgres \cup b.postgres,
     mysql    |-> a.mysql \cup b.mysql,
     mssql    |-> a.mssql \cup b.mssql]

IsDigit(c) == c \in Range(Digits)

DigitValue(c) == (CHOOSE i \in DOMAIN Digits : Digits[i] = c) - 1

RECURSIVE leadingDigits(_, _)
leadingDigits(s, acc) ==
    IF s # <<>> /\ IsDigit(Head(s))
    THEN leadingDigits(Tail(s), 10 * acc + DigitValue(Head(s)))
    ELSE acc

RECURSIVE dropSpaces(_)
dropSpaces(s) == IF s # <<>> /\ Head(s) = " " THEN dropSpaces(Tail(s)) ELSE s

\* parseInt(text): leading blanks, an optional sign, the leading digits.
\* NaN is given as 0: the only use is `size && size > 0`, false for both.
parseInt(text) ==
    LET s == dropSpaces(text)
    IN  IF s = <<>> THEN 0
        ELSE IF Head(s) = "-" THEN 0 - leadingDigits(Tail(s), 0)
        ELSE IF Head(s) = "+" THEN leadingDigits(Tail(s), 0)
        ELSE leadingDigits(s, 0)

\* field.characterMaximumLength ? parseInt(...) : undefined, then size > 0
declaredSize(field) ==
    IF field.characterMaximumLength # <<>>
    THEN parseInt(field.characterMaximumLength)
    ELSE 0

\* JSON.stringify of a string: quoted, with quote and backslash escaped.
RECURSIVE jsonEscape(_)
jsonEscape(s) ==
    IF s = <<>> THEN <<>>
    ELSE (IF Head(s) \in {"\"", "\\"} THEN <<"\\", Head(s)>> ELSE <<Head(s)>>)
         \o jsonEscape(Tail(s))

jsonStringify(s) == <<"\"">> \o jsonEscape(s) \o <<"\"">>

RECURSIVE join(_, _)
join(parts, sep) ==
    IF parts = <<>> THEN <<>>
    ELSE IF Len(parts) = 1 THEN parts[1]
    ELSE parts[1] \o sep \o join(Tail(parts), sep)

\* A dialect type that would be left out of the import line.
DialectUnlisted(text, family) == [text |-> text, symbols |-> NoSymbols]

Plain(text) == [text |-> text, symbols |-> NoSymbols]

Dialect(text, family) ==
    [text |-> text, symbols |-> [NoSymbols EXCEPT ![family] = {text}]]

enumType(field, enums) ==
    LET info == enums[field.type.name]
        vals == join([i \in DOMAIN info.values |-> jsonStringify(info.values[i])],
                     T(", "))
        schemaArg == IF info.schema # <<>>
                     THEN T(", schema=\"") \o info.schema \o T("\"")
                     ELSE <<>>
    IN  T("sa.Enum(") \o vals \o T(", name=\"") \o field.type.name \o T("\"")
        \o schemaArg \o T(")")

scalarType(t, field, databaseType) ==
    IF t = T("integer") \/ t = T("int") THEN Plain(T("sa.Integer"))
    ELSE IF t = T("bigint") THEN Plain(T("sa.BigInteger"))
    ELSE IF t = T("smallint") \/ t = T("int2") THEN Plain(T("sa.SmallInteger"))
    ELSE IF t = T("decimal") \/ t = T("numeric") THEN
        Plain(IF field.precision # 0
              THEN IF field.scale # 0
                   THEN T("sa.Numeric(precision=") \o decimal(field.precision)
                        \o T(", scale=") \o decimal(field.scale) \o T(")")
                   ELSE T("sa.Numeric(precision=") \o decimal(field.precision)
                        \o T(")")
              ELSE T("sa.Numeric"))
    ELSE IF t = T("double") \/ t = T("double precision") \/ t = T("float8")
        THEN Plain(T("sa.Float"))
    ELSE IF t = T("real") \/ t = T("float") \/ t = T("float4")
        THEN Plain(T("sa.Float"))
    ELSE IF includes(t, T("varchar")) \/ t = T("character varying") THEN
        Plain(IF declaredSize(field) > 0
              THEN T("sa.String(") \o decimal(declaredSize(field)) \o T(")")
              ELSE T("sa.String"))
    ELSE IF t = T("char") \/ t = T("character") THEN
        Plain(IF declaredSize(field) > 0
              THEN T("sa.String(") \o decimal(declaredSize(field)) \o T(")")
              ELSE T("sa.String"))
    ELSE IF t = T("text") THEN Plain(T("sa.Text"))
    ELSE IF t = T("date") THEN Plain(T("sa.Date"))
    ELSE IF includes(t, T("timestamp")) THEN Plain(T("sa.DateTime(timezone=True)"))
    ELSE IF t = T("time") THEN Plain(T("sa.Time"))
    ELSE IF t = T("boolean") \/ t = T("bool") THEN Plain(T("sa.Boolean"))
    ELSE IF databaseType = "mysql" /\ startsWith(t, T("tinyint"))
        THEN Plain(T("sa.Boolean"))
    ELSE IF t \in {T("bytea"), T("blob"), T("binary"), T("varbinary")}
        THEN Plain(T("sa.LargeBinary"))
    ELSE IF t = T("uuid") THEN
        IF databaseType = "postgresql" THEN Dialect(T("UUID"), "postgres")
        ELSE IF databaseType = "sql_server"
             THEN Dialect(T("UNIQUEIDENTIFIER"), "mssql")
        ELSE Plain(T("sa.String"))
    ELSE IF t = T("json") \/ t = T("jsonb") THEN
        IF databaseType = "postgresql" THEN Dialect(T("JSONB"), "postgres")
        ELSE IF databaseType = "mysql" THEN Dialect(T("JSON"), "mysql")
        ELSE Plain(T("sa.JSON"))
    ELSE IF t = T("array") THEN Plain(T("sa.ARRAY(sa.Text)"))
    ELSE IF databaseType = "postgresql" /\ t = T("inet")
        THEN Dialect(T("INET"), "postgres")
    ELSE IF databaseType = "postgresql" /\ t = T("cidr")
        THEN Dialect(T("CIDR"), "postgres")
    ELSE IF databaseType = "postgresql" /\ t = T("macaddr")
        THEN Dialect(T("MACADDR"), "postgres")
    ELSE IF databaseType = "postgresql" /\ t = T("citext")
        THEN Dialect(T("CITEXT"), "postgres")
    ELSE IF databaseType = "postgresql" /\ t = T("hstore")
        THEN Dialect(T("HSTORE"), "postgres")
    ELSE IF databaseType = "postgresql" /\ t = T("money")
        THEN Dialect(T("MONEY"), "postgres")
    ELSE IF databaseType = "postgresql" /\ t = T("interval")
        THEN Plain(T("sa.Interval"))
    ELSE IF databaseType = "mysql" /\ t = T("mediumtext")
        THEN Dialect(T("MEDIUMTEXT"), "mysql")
    ELSE IF databaseType = "mysql" /\ t = T("longtext")
        THEN Dialect(T("LONGTEXT"), "mysql")
    ELSE IF databaseType = "mysql" /\ t = T("year")
        THEN Dialect(T("YEAR"), "mysql")
    ELSE IF databaseType = "mysql" /\ t = T("set")
        THEN Dialect(T("SET"), "mysql")
    ELSE IF databaseType = "sql_server" /\ t = T("datetime2")
        THEN Dialect(T("DATETIME2"), "mssql")
    ELSE IF databaseType = "sql_server" /\ t = T("smalldatetime")
        THEN Dialect(T("SMALLDATETIME"), "mssql")
    ELSE IF databaseType = "sql_server" /\ t = T("money")
        THEN Dialect(T("MONEY"), "mssql")
    ELSE IF databaseType = "sql_server"
            /\ t \in {T("nvarchar"), T("nchar"), T("ntext")} THEN
        Plain(IF declaredSize(field) > 0
              THEN T("sa.Unicode(") \o decimal(declaredSize(field)) \o T(")")
              ELSE T("sa.UnicodeText"))
    ELSE Plain(T("sa.String"))

\* The result holds the type text and the symbols the call adds to
\* dialectSymbols.
RECURSIVE saTypeFromField(_, _, _)
saTypeFromField(field, databaseType, enums) ==
    LET t == toLowerCase(field.type.name)
    IN  IF field.type.name \in DOMAIN enums
        THEN Plain(enumType(field, enums))
        ELSE IF endsWith(t, T("[]"))
        THEN LET elemField == [field EXCEPT !.type.name = sliceEnd(t, 2)]
                 elemType == saTypeFromField(elemField, databaseType, enums)
             IN  [text |-> T("sa.ARRAY(") \o elemType.text \o T(")"),
                  symbols |-> elemType.symbols]
        ELSE scalarType(t, field, databaseType)

pyTypeFromField(field) ==
    LET t == toLowerCase(field.type.name)
    IN  IF t \in {T("integer"), T("int"), T("smallint"), T("int2")} THEN T("int")
        ELSE IF t = T("bigint") THEN T("int")
        ELSE IF t = T("decimal") \/ t = T("numeric") THEN T("Decimal")
        ELSE IF t \in {T("double"), T("double precision"), T("float"),
                       T("float4"), T("float8"), T("real")} THEN T("float")
        ELSE IF \/ includes(t, T("varchar"))
                \/ t \in {T("character varying"), T("char"), T("character"),
                          T("text")} THEN T("str")
        ELSE IF t = T("date") THEN T("datetime.date")
        ELSE IF includes(t, T("timestamp")) THEN T("datetime.datetime")
        ELSE IF t \in {T("datetime2"), T("smalldatetime"), T("datetime")}
            THEN T("datetime.datetime")
        ELSE IF t = T("time") THEN T("datetime.time")
        ELSE IF t = T("boolean") \/ t = T("bool") THEN T("bool")
        ELSE IF startsWith(t, T("tinyint")) THEN T("bool")
        ELSE IF t \in {T("bytea"), T("blob"), T("binary"), T("varbinary")}
            THEN T("bytes")
        ELSE IF t = T("uuid") THEN T("str")
        ELSE IF t = T("json") \/ t = T("jsonb") THEN T("dict[str, Any]")
        ELSE IF endsWith(t, T("[]")) \/ t = T("array") THEN T("list[str]")
        ELSE T("str")

-----------------------------------------------------------------------------
(* Column renderer *)

IsSpace(c) == c \in {" ", "\t", "\n", "\r"}

RECURSIVE trimStart(_)
trimStart(s) == IF s # <<>> /\ IsSpace(Head(s)) THEN trimStart(Tail(s)) ELSE s

RECURSIVE trimEnd(_)
trimEnd(s) ==
    IF s # <<>> /\ IsSpace(s[Len(s)]) THEN trimEnd(sliceEnd(s, 1)) ELSE s

trim(s) == trimEnd(trimStart(s))

\* s.replace(/\r?\n/g, rep)
RECURSIVE replaceNewlines(_, _)
replaceNewlines(s, rep) ==
    IF s = <<>> THEN <<>>
    ELSE IF Head(s) = "\n" THEN rep \o replaceNewlines(Tail(s), rep)
    ELSE IF Len(s) >= 2 /\ s[1] = "\r" /\ s[2] = "\n"
         THEN rep \o replaceNewlines(Tail(Tail(s)), rep)
    ELSE <<Head(s)>> \o replaceNewlines(Tail(s), rep)

\* s.replace(/"/g, '\\"')
RECURSIVE escapeQuotes(_)
escapeQuotes(s) ==
    IF s = <<>> THEN <<>>
    ELSE (IF Head(s) = "\"" THEN <<"\\", "\"">> ELSE <<Head(s)>>)
         \o escapeQuotes(Tail(s))

\* s.split('\n')
RECURSIVE splitLines(_, _)
splitLines(s, cur) ==
    IF s = <<>> THEN <<cur>>
    ELSE IF Head(s) = "\n" THEN <<cur>> \o splitLines(Tail(s), <<>>)
    ELSE splitLines(Tail(s), Append(cur, Head(s)))

\* The comment lines that precede a declaration; none for no comment.
formatPyInlineComment(comment, indent) ==
    IF comment = <<>> THEN <<>>
    ELSE LET sanitized == trim(replaceNewlines(comment, <<"\n">>))
         IN  IF sanitized = <<>> THEN <<>>
             ELSE LET lines == splitLines(sanitized, <<>>)
                  IN  [i \in DOMAIN lines |-> indent \o T("# ") \o lines[i]]

\* /^\d+(\.\d+)?$/
RECURSIVE allDigits(_)
allDigits(s) == s = <<>> \/ (IsDigit(Head(s)) /\ allDigits(Tail(s)))

isNumberLiteral(d) ==
    \/ d # <<>> /\ allDigits(d)
    \/ \E i \in 2..(Len(d) - 1) :
          /\ d[i] = "."
          /\ allDigits(SubSeq(d, 1, i - 1))
          /\ allDigits(SubSeq(d, i + 1, Len(d)))

noNewline(s) == \A i \in DOMAIN s : s[i] \notin {"\n", "\r"}

\* /^'.*'$/.test(d) || /^".*"$/.test(d)
isQuotedLiteral(d) ==
    /\ Len(d) >= 2
    /\ \/ d[1] = "'" /\ d[Len(d)] = "'"
       \/ d[1] = "\"" /\ d[Len(d)] = "\""
    /\ noNewline(SubSeq(d, 2, Len(d) - 1))

\* d.replace(/^['"]|['"]$/g, '')
stripQuotes(d) ==
    LET a == IF d # <<>> /\ Head(d) \in {"'", "\""} THEN Tail(d) ELSE d
    IN  IF a # <<>> /\ a[Len(a)] \in {"'", "\""} THEN sliceEnd(a, 1) ELSE a

\* The server_default keyword of a declared default.
defaultKwarg(fieldDefault) ==
    LET d == trim(fieldDefault)
        low == toLowerCase(d)
    IN  IF low = T("now()") \/ includes(low, T("current_timestamp"))
        THEN T("server_default=sa.text(\"CURRENT_TIMESTAMP\")")
        ELSE IF startsWith(low, T("nextval("))
        THEN T("server_default=sa.text(\"") \o escapeQuotes(d) \o T("\")")
        ELSE IF isNumberLiteral(d)
        THEN T("server_default=sa.text(\"") \o d \o T("\")")
        ELSE IF isQuotedLiteral(d)
        THEN T("server_default=sa.text(\"'") \o escapeQuotes(stripQuotes(d))
             \o T("'\")")
        ELSE T("server_default=sa.text(\"") \o escapeQuotes(d) \o T("\")")

\* A heuristic that would take any name ending in the word.
looksLikeSuffix(fnameLower, word) == endsWith(fnameLower, word)

\* /(^|_)created_at$/ and /(^|_)updated_at$/ on the lower-cased name
looksLike(fnameLower, word) ==
    fnameLower = word \/ endsWith(fnameLower, <<"_">> \o word)

fkTarget(fkSpec) ==
    (IF fkSpec.refTable.schema # <<>>
     THEN fkSpec.refTable.schema \o T(".") ELSE <<>>)
    \o fkSpec.refTable.name \o T(".") \o fkSpec.refField[1].name

\* A renderer that could not name a referenced table without a schema.
renderColumnRaisesUnqualified(fkSpecs) ==
    fkSpecs # <<>> /\ (fkSpecs[1].refField = <<>> \/ fkSpecs[1].refTable.schema = <<>>)

\* fkSpecs is <<>> for no entry in fkByTableField, else <<fkSpec>>.
\* Reading fkSpec.refField.name of an undefined refField raises.
renderColumnRaises(fkSpecs) == fkSpecs # <<>> /\ fkSpecs[1].refField = <<>>

\* A renderer that marks every primary-key column, composite or not.
primaryKeyKwargAlways(field, options) ==
    IF field.primaryKey THEN <<T("primary_key=True")>> ELSE <<>>

\* if (field.primaryKey && !options.isCompositePK) kwargs.push(...)
primaryKeyKwarg(field, options) ==
    IF field.primaryKey /\ ~options.isCompositePK
    THEN <<T("primary_key=True")>> ELSE <<>>

\* if (field.unique && !field.primaryKey) kwargs.push('unique=True')
uniqueKwarg(field) ==
    IF field.unique /\ ~field.primaryKey THEN <<T("unique=True")>> ELSE <<>>

renderColumn(field, databaseType, options, enums, fkSpecs) ==
    LET saType == saTypeFromField(field, databaseType, enums)
        positionalArgs ==
            <<saType.text>>
            \o (IF fkSpecs # <<>>
                THEN <<T("sa.ForeignKey(\"") \o fkTarget(fkSpecs[1]) \o T("\")")>>
                ELSE <<>>)
        tname == toLowerCase(field.type.name)
        fnameLower == toLowerCase(field.name)
        kwargs ==
            primaryKeyKwarg(field, options)
            \o (IF field.increment THEN <<T("autoincrement=True")>> ELSE <<>>)
            \o (IF field.nullable = FALSE THEN <<T("nullable=False")>> ELSE <<>>)
            \o uniqueKwarg(field)
            \o (IF field.default # <<>> /\ ~field.increment
                THEN <<defaultKwarg(field.default)>> ELSE <<>>)
            \o (IF field.default = <<>> /\ looksLike(fnameLower, T("created_at"))
                THEN <<T("server_default=sa.func.now()")>> ELSE <<>>)
            \o (IF field.default = <<>> /\ looksLike(fnameLower, T("updated_at"))
                THEN <<T("server_default=sa.func.now()"),
                       T("onupdate=sa.func.now()")>>
                ELSE <<>>)
            \o (IF fkSpecs # <<>> THEN <<T("index=True")>> ELSE <<>>)
            \o (IF tname = T("uuid") THEN <<T("default=uuid.uuid4")>> ELSE <<>>)
        annot ==
            IF endsWith(tname, T("[]")) \/ tname = T("array")
            THEN LET base == IF endsWith(tname, T("[]"))
                             THEN sliceEnd(tname, 2) ELSE T("text")
                     elemField == [field EXCEPT !.type.name = base]
                 IN  T("list[") \o pyTypeFromField(elemField) \o T("]")
            ELSE pyTypeFromField(field)
    IN  [comment |-> formatPyInlineComment(field.comments, T("    ")),
         field   |-> field.id,
         name    |-> pyIdentifier(field.name),
         annot   |-> annot,
         positionalArgs |-> positionalArgs,
         kwargs  |-> kwargs,
         symbols |-> saType.symbols]

\* The declaration line of a rendered column.
columnLine(col) ==
    T("    ") \o col.name \o T(": Mapped[") \o col.annot
    \o T("] = mapped_column(")
    \o join(col.positionalArgs \o col.kwargs, T(", ")) \o T(")")

-----------------------------------------------------------------------------
(* Relationship classifier, foreign-key resolver, association tables *)

\* Array.prototype.find: <<>> for undefined, else <<the first match>>.
RECURSIVE findById(_, _)
findById(items, id) ==
    IF items = <<>> THEN <<>>
    ELSE IF Head(items).id = id THEN <<Head(items)>>
    ELSE findById(Tail(items), id)

\* Reading source.fields or target.fields of an undefined table raises.
classifyRaises(rel, tables) ==
    \/ findById(tables, rel.sourceTableId) = <<>>
    \/ findById(tables, rel.targetTableId) = <<>>

\* Defined when classifyRaises is false.  A field that is not found is <<>>.
\* A classifier that would take the source for the one side whichever end
\* is declared many.
classifyRelationshipAsDeclared(rel, tables) ==
    LET source == findById(tables, rel.sourceTableId)[1]
        target == findById(tables, rel.targetTableId)[1]
        sourceField == findById(source.fields, rel.sourceFieldId)
        targetField == findById(target.fields, rel.targetFieldId)
    IN  IF rel.sourceCardinality # rel.targetCardinality
        THEN [kind |-> "one_to_many", one |-> source, oneField |-> sourceField,
              many |-> target, manyField |-> targetField]
        ELSE IF rel.sourceCardinality = "one"
        THEN [kind |-> "one_to_one", a |-> source, aField |-> sourceField,
              b |-> target, bField |-> targetField]
        ELSE [kind |-> "many_to_many", a |-> source, aField |-> sourceField,
              b |-> target, bField |-> targetField]

classifyRelationship(rel, tables) ==
    LET source == findById(tables, rel.sourceTableId)[1]
        target == findById(tables, rel.targetTableId)[1]
        sourceField == findById(source.fields, rel.sourceFieldId)
        targetField == findById(target.fields, rel.targetFieldId)
    IN  IF rel.sourceCardinality = "one" /\ rel.targetCardinality = "many"
        THEN [kind |-> "one_to_many", one |-> source, oneField |-> sourceField,
              many |-> target, manyField |-> targetField]
        ELSE IF rel.sourceCardinality = "many" /\ rel.targetCardinality = "one"
        THEN [kind |-> "one_to_many", one |-> target, oneField |-> targetField,
              many |-> source, manyField |-> sourceField]
        ELSE IF rel.sourceCardinality = "one" /\ rel.targetCardinality = "one"
        THEN [kind |-> "one_to_one", a |-> source, aField |-> sourceField,
              b |-> target, bField |-> targetField]
        ELSE [kind |-> "many_to_many", a |-> source, aField |-> sourceField,
              b |-> target, bField |-> targetField]

EmptyMap == [k \in {} |-> <<>>]

\* `${table.id}:${field.id}`
fkKey(tableId, fieldId) == tableId \o T(":") \o fieldId

\* A map that would keep the first value set under a key.
mapSetIfAbsent(map, key, value) == map @@ (key :> value)

\* Map.prototype.set: the value replaces what the key held.
mapSet(map, key, value) == (key :> value) @@ map

\* A registration that would treat a many-to-many relationship as a
\* one-to-one.
fkRegistrationEveryKind(cls) ==
    IF cls.kind = "one_to_many"
    THEN <<[holder |-> cls.many, holderField |-> cls.manyField,
            refTable |-> cls.one, refField |-> cls.oneField]>>
    ELSE <<[holder |-> cls.a, holderField |-> cls.aField,
            refTable |-> cls.b, refField |-> cls.bField]>>

\* The registration a classified relationship makes in fkByTableField:
\* <<>> for none, else the holder and what it references.
fkRegistration(cls) ==
    IF cls.kind = "one_to_many"
    THEN <<[holder |-> cls.many, holderField |-> cls.manyField,
            refTable |-> cls.one, refField |-> cls.oneField]>>
    ELSE IF cls.kind = "one_to_one"
    THEN <<[holder |-> cls.a, holderField |-> cls.aField,
            refTable |-> cls.b, refField |-> cls.bField]>>
    ELSE <<>>

\* relationships.forEach of lines 447-463.  Reading the id of an undefined
\* holder field raises.
RECURSIVE registerForeignKeys(_, _, _)
registerForeignKeys(rels, tables, map) ==
    IF rels = <<>> THEN [raised |-> FALSE, map |-> map]
    ELSE IF classifyRaises(Head(rels), tables)
    THEN [raised |-> TRUE, map |-> map]
    ELSE LET reg == fkRegistration(classifyRelationship(Head(rels), tables))
         IN  IF reg = <<>>
             THEN registerForeignKeys(Tail(rels), tables, map)
             ELSE IF reg[1].holderField = <<>>
             THEN [raised |-> TRUE, map |-> map]
             ELSE registerForeignKeys(
                      Tail(rels), tables,
                      mapSet(map,
                             fkKey(reg[1].holder.id, reg[1].holderField[1].id),
                             [refTable |-> reg[1].refTable,
                              refField |-> reg[1].refField]))

\* cls.a.schema || cls.b.schema
firstSchema(a, b) == IF a.schema # <<>> THEN a.schema ELSE b.schema

\* An association name without the relationship's position.
assocNameUnnumbered(cls, idx) ==
    pyIdentifier(T("assoc_") \o cls.a.name \o T("_") \o cls.b.name)

assocName(cls, idx) ==
    pyIdentifier(T("assoc_") \o cls.a.name \o T("_") \o cls.b.name \o T("_")
                 \o decimal(idx))

\* relationships.forEach((rel, idx) => ...) of lines 475-490; idx counts
\* from 0 over all relationships.
RECURSIVE collectAssociations(_, _, _, _)
collectAssociations(rels, idx, tables, list) ==
    IF idx >= Len(rels) THEN list
    ELSE LET cls == classifyRelationship(rels[idx + 1], tables)
         IN  collectAssociations(
                 rels, idx + 1, tables,
                 IF cls.kind = "many_to_many"
                 THEN Append(list, [name   |-> assocName(cls, idx),
                                    a      |-> cls.a,
                                    aField |-> cls.aField,
                                    b      |-> cls.b,
                                    bField |-> cls.bField,
                                    schema |-> firstSchema(cls.a, cls.b)])
                 ELSE list)

\* (diagram.customTypes || []).forEach of lines 497-508
RECURSIVE registerEnums(_, _)
registerEnums(customTypes, map) ==
    IF customTypes = <<>> THEN map
    ELSE LET ct == Head(customTypes)
         IN  registerEnums(
                 Tail(customTypes),
                 IF ct.kind = "enum" /\ ct.values # <<>>
                 THEN (ct.name :> [values |-> ct.values, schema |-> ct.schema])
                      @@ map
                 ELSE map)

\* The default schema of the dialect; <<>> where the dialect has none.
defaultSchemas(databaseType) ==
    IF databaseType = "postgresql" THEN T("public")
    ELSE IF databaseType = "sql_server" THEN T("dbo")
    ELSE <<>>

qualified(table, field) ==
    (IF table.schema # <<>> THEN table.schema \o T(".") ELSE <<>>)
    \o table.name \o T(".") \o field.name

\* Reading j.aField.name or j.bField.name of an undefined field raises.
assocBlockRaises(j) == j.aField = <<>> \/ j.bField = <<>>

assocBlock(j, databaseType) ==
    [name   |-> j.name,
     schema |-> IF j.schema # <<>> THEN j.schema
                ELSE defaultSchemas(databaseType),
     columns |->
        <<[name |-> pyIdentifier(j.aField[1].name),
           foreignKey |-> qualified(j.a, j.aField[1]), primaryKey |-> TRUE],
          [name |-> pyIdentifier(j.bField[1].name),
           foreignKey |-> qualified(j.b, j.bField[1]), primaryKey |-> TRUE]>>]

-----------------------------------------------------------------------------
(* Table renderer *)

\* m2m.find((m) => m.a.id === cls.a.id && m.b.id === cls.b.id)?.name
RECURSIVE findAssocName(_, _)
findAssocName(list, cls) ==
    IF list = <<>> THEN T("undefined")
    ELSE IF Head(list).a.id = cls.a.id /\ Head(list).b.id = cls.b.id
    THEN Head(list).name
    ELSE findAssocName(Tail(list), cls)

\* The cascade value written on a one-to-many collection attribute.
collectionCascade == T("all, delete-orphan")

\* A line that would carry the cascade whatever its kind and side.
RelLineAlwaysCascade(kind, side, attr, targetClass, uselist, secondary, backPopulates, casc) ==
    [kind |-> kind, side |-> side, attr |-> attr, targetClass |-> targetClass,
     uselist |-> uselist, secondary |-> secondary,
     backPopulates |-> backPopulates, lazy |-> T("selectin"),
     cascade |-> collectionCascade]

RelLine(kind, side, attr, targetClass, uselist, secondary, backPopulates, casc) ==
    [kind |-> kind, side |-> side, attr |-> attr, targetClass |-> targetClass,
     uselist |-> uselist, secondary |-> secondary,
     backPopulates |-> backPopulates, lazy |-> T("selectin"), cascade |-> casc]

\* The attribute line of one side of a classified relationship, by the
\* template of that kind and side (lines 593, 604, 616, 626, 641, 654).
sideLine(cls, side, assocs) ==
    IF cls.kind = "one_to_many" THEN
        IF side = "one"
        THEN RelLine("one_to_many", "one", relAttrName(cls.many.name),
                     toPascalCase(cls.many.name), TRUE, <<>>,
                     pyIdentifier(cls.one.name), collectionCascade)
        ELSE RelLine("one_to_many", "many", pyIdentifier(cls.one.name),
                     toPascalCase(cls.one.name), TRUE, <<>>,
                     relAttrName(cls.many.name), <<>>)
    ELSE IF cls.kind = "one_to_one" THEN
        IF side = "a"
        THEN RelLine("one_to_one", "a", pyIdentifier(cls.b.name),
                     toPascalCase(cls.b.name), FALSE, <<>>,
                     pyIdentifier(cls.a.name), <<>>)
        ELSE RelLine("one_to_one", "b", pyIdentifier(cls.a.name),
                     toPascalCase(cls.a.name), FALSE, <<>>,
                     pyIdentifier(cls.b.name), <<>>)
    ELSE
        IF side = "a"
        THEN RelLine("many_to_many", "a", relAttrName(cls.b.name),
                     toPascalCase(cls.b.name), TRUE,
                     findAssocName(assocs, cls),
                     relAttrName(cls.a.name), <<>>)
        ELSE RelLine("many_to_many", "b", relAttrName(cls.a.name),
                     toPascalCase(cls.a.name), TRUE,
                     findAssocName(assocs, cls),
                     relAttrName(cls.b.name), <<>>)

\* The attribute line a relationship gives the class of `table`: <<>> for
\* none, else <<line>>.  The if / else-if of lines 587-661: the second side
\* is looked at only when the table is not the first side.
relLineFor(cls, table, assocs) ==
    IF cls.kind = "one_to_many" THEN
        IF cls.one.id = table.id THEN <<sideLine(cls, "one", assocs)>>
        ELSE IF cls.many.id = table.id THEN <<sideLine(cls, "many", assocs)>>
        ELSE <<>>
    ELSE
        IF cls.a.id = table.id THEN <<sideLine(cls, "a", assocs)>>
        ELSE IF cls.b.id = table.id THEN <<sideLine(cls, "b", assocs)>>
        ELSE <<>>

\* The text of an attribute line, by the template of its kind and side.
lineText(line) ==
    T("    ") \o line.attr \o T(": Mapped[")
    \o (IF line.kind = "one_to_one" \/ line.side = "many"
        THEN line.targetClass
        ELSE T("list[") \o line.targetClass \o T("]"))
    \o T("] = relationship(\"") \o line.targetClass \o T("\"")
    \o (IF line.uselist THEN <<>> ELSE T(", uselist=False"))
    \o (IF line.kind = "many_to_many"
        THEN T(", secondary=") \o line.secondary ELSE <<>>)
    \o T(", back_populates=\"") \o line.backPopulates \o T("\"")
    \o T(", lazy=\"") \o line.lazy \o T("\"")
    \o (IF line.cascade # <<>>
        THEN T(", cascade=\"") \o line.cascade \o T("\"") ELSE <<>>)
    \o T(")")

\* if (!relLineSet.has(line)) { relLines.push(line); relLineSet.add(line) }
pushUnlessPresent(relLines, line) ==
    IF \E i \in DOMAIN relLines : lineText(relLines[i]) = lineText(line)
    THEN relLines
    ELSE Append(relLines, line)

\* relationships.forEach of lines 585-662 for one table.
RECURSIVE relationshipLines(_, _, _, _, _)
relationshipLines(rels, tables, table, assocs, relLines) ==
    IF rels = <<>> THEN relLines
    ELSE LET line == relLineFor(classifyRelationship(Head(rels), tables),
                                table, assocs)
         IN  relationshipLines(
                 Tail(rels), tables, table, assocs,
                 IF line = <<>> THEN relLines
                 ELSE pushUnlessPresent(relLines, line[1]))

\* s.replace(/"""/g, '\\"""')
RECURSIVE escapeTripleQuotes(_)
escapeTripleQuotes(s) ==
    IF s = <<>> THEN <<>>
    ELSE IF startsWith(s, T("\"\"\""))
    THEN T("\\\"\"\"") \o escapeTripleQuotes(SubSeq(s, 4, Len(s)))
    ELSE <<Head(s)>> \o escapeTripleQuotes(Tail(s))

quotedNames(fields) ==
    join([i \in DOMAIN fields |-> T("\"") \o fields[i].name \o T("\"")], T(", "))

\* idx.fieldIds.map(find).filter(Boolean)
RECURSIVE indexFieldsOf(_, _)
indexFieldsOf(fieldIds, fields) ==
    IF fieldIds = <<>> THEN <<>>
    ELSE findById(fields, Head(fieldIds)) \o indexFieldsOf(Tail(fieldIds), fields)

fieldNames(fields) == {fields[i].name : i \in DOMAIN fields}

\* The __table_args__ entry of one non-primary-key index (the body of
\* nonPKIndexes.forEach, lines 682-706): <<>> for none.
\* An index renderer without the comparison with the primary key.
indexArgWithoutKeyCheck(idx, table, pkFields) ==
    LET indexFields == indexFieldsOf(idx.fieldIds, table.fields)
        cols == quotedNames(indexFields)
    IN  IF indexFields = <<>> THEN <<>>
        ELSE IF idx.unique
        THEN IF Len(indexFields) = 1 /\ indexFields[1].unique THEN <<>>
             ELSE <<T("sa.UniqueConstraint(") \o cols \o T(", name=\"")
                    \o idx.name \o T("\")")>>
        ELSE <<T("sa.Index(\"") \o idx.name \o T("\", ") \o cols \o T(")")>>

indexArg(idx, table, pkFields) ==
    LET indexFields == indexFieldsOf(idx.fieldIds, table.fields)
        cols == quotedNames(indexFields)
        duplicatesPK == fieldNames(indexFields) = fieldNames(pkFields)
    IN  IF indexFields = <<>> THEN <<>>
        ELSE IF duplicatesPK THEN <<>>
        ELSE IF idx.unique
        THEN IF Len(indexFields) = 1 /\ indexFields[1].unique THEN <<>>
             ELSE <<T("sa.UniqueConstraint(") \o cols \o T(", name=\"")
                    \o idx.name \o T("\")")>>
        ELSE <<T("sa.Index(\"") \o idx.name \o T("\", ") \o cols \o T(")")>>

RECURSIVE indexArgs(_, _, _)
indexArgs(indexes, table, pkFields) ==
    IF indexes = <<>> THEN <<>>
    ELSE (IF Head(indexes).isPrimaryKey THEN <<>>
          ELSE indexArg(Head(indexes), table, pkFields))
         \o indexArgs(Tail(indexes), table, pkFields)

IsPrimaryKeyField(f) == f.primaryKey

primaryKeyFields(table) == SelectSeq(table.fields, IsPrimaryKeyField)

tableArgsOf(table, databaseType) ==
    LET pkFields == primaryKeyFields(table)
        schemaName == IF table.schema # <<>> THEN table.schema
                      ELSE defaultSchemas(databaseType)
    IN  (IF Len(pkFields) > 1
         THEN <<T("sa.PrimaryKeyConstraint(") \o quotedNames(pkFields) \o T(")")>>
         ELSE <<>>)
        \o indexArgs(table.indexes, table, pkFields)
        \o (IF schemaName # <<>>
            THEN <<T("{\"schema\": \"") \o schemaName \o T("\"}")>>
            ELSE <<>>)

fkSpecsOf(map, table, field) ==
    IF fkKey(table.id, field.id) \in DOMAIN map
    THEN <<map[fkKey(table.id, field.id)]>>
    ELSE <<>>

\* A column of the table raises in renderColumn.
classBlockRaises(table, map) ==
    \E i \in DOMAIN table.fields :
        renderColumnRaises(fkSpecsOf(map, table, table.fields[i]))

\* The class block of one non-view table (lines 557-728).
classBlock(table, d, map, assocs, enums) ==
    LET pkFields == primaryKeyFields(table)
        options == [isCompositePK |-> Len(pkFields) > 1,
                    pkFieldNames |-> fieldNames(pkFields)]
    IN  [table     |-> table.id,
         className |-> toPascalCase(table.name),
         tablename |-> table.name,
         tableArgs |-> tableArgsOf(table, d.databaseType),
         doc       |-> IF table.comments # <<>>
                       THEN escapeTripleQuotes(
                                replaceNewlines(table.comments, <<" ">>))
                       ELSE <<>>,
         cols      |-> [i \in DOMAIN table.fields |->
                           renderColumn(table.fields[i], d.databaseType, options,
                                        enums,
                                        fkSpecsOf(map, table, table.fields[i]))],
         relLines  |-> relationshipLines(d.relationships, d.tables, table,
                                         assocs, <<>>)]

-----------------------------------------------------------------------------
(* Dialect import aggregator and document orchestrator *)

\* UTF-16 code-unit order of the characters that occur in symbols.
CodeOrder == Digits \o Uppers \o <<"_">> \o Lowers

CodeOf(c) == CHOOSE i \in DOMAIN CodeOrder : CodeOrder[i] = c

RECURSIVE textLess(_, _)
textLess(x, y) ==
    IF y = <<>> THEN FALSE
    ELSE IF x = <<>> THEN TRUE
    ELSE IF Head(x) = Head(y) THEN textLess(Tail(x), Tail(y))
    ELSE CodeOf(Head(x)) < CodeOf(Head(y))

\* Array.from(set).sort()
RECURSIVE sorted(_)
sorted(S) ==
    IF S = {} THEN <<>>
    ELSE LET least == CHOOSE x \in S : \A y \in S \ {x} : textLess(x, y)
         IN  <<least>> \o sorted(S \ {least})

baseImportLines ==
    <<T("from __future__ import annotations"),
      T("import datetime"),
      T("import uuid"),
      T("from decimal import Decimal"),
      T("from typing import Any"),
      T("import sqlalchemy as sa"),
      T("from sqlalchemy import Table"),
      T("from sqlalchemy.orm import DeclarativeBase, relationship, Mapped, mapped_column")>>

dialectImportLine(module, symbolSet) ==
    IF symbolSet = {} THEN <<>>
    ELSE <<T("from sqlalchemy.dialects.") \o module \o T(" import ")
           \o join(sorted(symbolSet), T(", "))>>

importLinesOf(symbols) ==
    baseImportLines
    \o dialectImportLine(T("postgresql"), symbols.postgres)
    \o dialectImportLine(T("mysql"), symbols.mysql)
    \o dialectImportLine(T("mssql"), symbols.mssql)

\* The containers an invocation creates: new Map(), [], new Set().  What
\* an earlier invocation left is not read.
newFkByTableField(previous) == EmptyMap

newM2m(previous) == <<>>

newEnumTypeMap(previous) == EmptyMap

\* Dialect-symbol sets that would outlive the invocation.
keptDialectSymbols(previous) == previous

newDialectSymbols(previous) == NoSymbols

\* A filter that would keep the views.
IsRenderedAlways(table) == TRUE

IsRendered(table) == ~table.isView

RECURSIVE collectSymbols(_, _)
collectSymbols(blocks, symbols) ==
    IF blocks = <<>> THEN symbols
    ELSE LET cols == Head(blocks).cols
             RECURSIVE ofCols(_, _)
             ofCols(i, acc) ==
                 IF i > Len(cols) THEN acc
                 ELSE ofCols(i + 1, AddSymbols(acc, cols[i].symbols))
         IN  collectSymbols(Tail(blocks), ofCols(1, symbols))

\* A text that would hold the prologue for a diagram without tables.
PrologueOnlyText ==
    [empty |-> FALSE, importLines |-> baseImportLines, assocBlocks |-> <<>>,
     classBlocks |-> <<>>]

\* The empty string.
EmptyText ==
    [empty |-> TRUE, importLines |-> <<>>, assocBlocks |-> <<>>,
     classBlocks |-> <<>>]

Outcome(status, text, fk, assocs, enums, symbols) ==
    [status |-> status, text |-> text, fkByTableField |-> fk, m2m |-> assocs,
     enumTypeMap |-> enums, dialectSymbols |-> symbols]

\* exportSQLAlchemy(diagram).  status is "returned" with text = <<the text>>,
\* or "raised" with text = <<>>.  `previous` holds the containers of the
\* invocation before this one.
\* diagram.tables || [], diagram.relationships || [] and
\* diagram.customTypes || []: a list the diagram does not hold reads as the
\* empty list.
listOrEmpty(diagramValue, key) ==
    IF key \in DOMAIN diagramValue THEN diagramValue[key] ELSE <<>>

withDefaults(diagramValue) ==
    [databaseType  |-> diagramValue.databaseType,
     tables        |-> listOrEmpty(diagramValue, "tables"),
     relationships |-> listOrEmpty(diagramValue, "relationships"),
     customTypes   |-> listOrEmpty(diagramValue, "customTypes")]

exportSQLAlchemy(diagramValue, previous) ==
    LET d == withDefaults(diagramValue) IN
    IF d.tables = <<>>
    THEN Outcome("returned", <<EmptyText>>, previous.fkByTableField,
                 previous.m2m, previous.enumTypeMap, previous.dialectSymbols)
    ELSE
    LET fk == registerForeignKeys(d.relationships, d.tables,
                                  newFkByTableField(previous.fkByTableField))
    IN  IF fk.raised
        THEN Outcome("raised", <<>>, fk.map, previous.m2m,
                     previous.enumTypeMap, previous.dialectSymbols)
        ELSE
    LET assocs == collectAssociations(d.relationships, 0, d.tables,
                                      newM2m(previous.m2m))
        enums == registerEnums(d.customTypes,
                               newEnumTypeMap(previous.enumTypeMap))
        symbols0 == newDialectSymbols(previous.dialectSymbols)
    IN  IF \E i \in DOMAIN assocs : assocBlockRaises(assocs[i])
        THEN Outcome("raised", <<>>, fk.map, assocs, enums, symbols0)
        ELSE
    LET rendered == SelectSeq(d.tables, IsRendered)
    IN  IF \E i \in DOMAIN rendered : classBlockRaises(rendered[i], fk.map)
        THEN Outcome("raised", <<>>, fk.map, assocs, enums, symbols0)
        ELSE
    LET classBlocks == [i \in DOMAIN rendered |->
                           classBlock(rendered[i], d, fk.map, assocs, enums)]
        symbols == collectSymbols(classBlocks, symbols0)
    IN  Outcome("returned",
                <<[empty |-> FALSE,
                   importLines |-> importLinesOf(symbols),
                   assocBlocks |-> [i \in DOMAIN assocs |->
                                       assocBlock(assocs[i], d.databaseType)],
                   classBlocks |-> classBlocks]>>,
                fk.map, assocs, enums, symbols)

\* [...].filter(Boolean) over strings: the empty string is dropped.
filterBoolean(parts) == SelectSeq(parts, LAMBDA part : part # <<>>)

\* The text of an association-table block (lines 537-542).
assocBlockText(block) ==
    block.name \o T(" = Table(\"") \o block.name \o T("\", Base.metadata")
    \o (IF block.schema # <<>>
        THEN T(", schema=\"") \o block.schema \o T("\"") ELSE <<>>)
    \o T(",\n")
    \o T("    sa.Column(\"") \o block.columns[1].name \o T("\", sa.ForeignKey(\"")
    \o block.columns[1].foreignKey \o T("\"), primary_key=True),\n")
    \o T("    sa.Column(\"") \o block.columns[2].name \o T("\", sa.ForeignKey(\"")
    \o block.columns[2].foreignKey \o T("\"), primary_key=True),\n")
    \o T(")\n")

\* comment ? comment + line : line (lines 386-388)
columnText(col) ==
    (IF col.comment # <<>> THEN join(col.comment, T("\n")) \o T("\n") ELSE <<>>)
    \o columnLine(col)

\* The text of a class block (lines 713-727).
classBlockText(cb) ==
    join(filterBoolean(
             <<T("class ") \o cb.className \o T("(Base):"),
               T("    __tablename__ = \"") \o cb.tablename \o T("\""),
               IF cb.tableArgs # <<>>
               THEN T("    __table_args__ = (") \o join(cb.tableArgs, T(", "))
                    \o T(",)")
               ELSE <<>>,
               IF cb.doc # <<>>
               THEN T("\n    __doc__ = \"\"\"") \o cb.doc \o T("\"\"\"")
               ELSE <<>>,
               join([i \in DOMAIN cb.cols |-> columnText(cb.cols[i])], T("\n")),
               join([i \in DOMAIN cb.relLines |-> lineText(cb.relLines[i])],
                    T("\n")),
               <<>>>>),
         T("\n"))

\* imports, two blank lines and the Base declaration (lines 752-753).
header(importLines) ==
    join(importLines, T("\n")) \o T("\n\n\nclass Base(DeclarativeBase):\n    pass\n")

\* The string that exportSQLAlchemy returns (lines 439 and 752-759).
documentText(text) ==
    IF text.empty THEN <<>>
    ELSE join(filterBoolean(
                  <<header(text.importLines),
                    join([i \in DOMAIN text.assocBlocks |->
                             assocBlockText(text.assocBlocks[i])], T("\n")),
                    join([i \in DOMAIN text.classBlocks |->
                             classBlockText(text.classBlocks[i])], T("\n\n")),
                    T("\n")>>),
              T("\n"))

-----------------------------------------------------------------------------
(* Diagrams *)

Field(id, name, typeName, primaryKey) ==
    [id |-> id, name |-> name, type |-> [name |-> typeName],
     primaryKey |-> primaryKey, nullable |-> TRUE, unique |-> FALSE,
     increment |-> FALSE, default |-> <<>>, characterMaximumLength |-> <<>>,
     precision |-> 0, scale |-> 0, comments |-> <<>>]

Table(id, name, schema, isView, fields) ==
    [id |-> id, name |-> name, schema |-> schema, isView |-> isView,
     fields |-> fields, indexes |-> <<>>, comments |-> <<>>]

Relationship(sourceTableId, sourceFieldId, targetTableId, targetFieldId, sourceCardinality, targetCardinality) ==
    [sourceTableId |-> sourceTableId, sourceFieldId |-> sourceFieldId,
     targetTableId |-> targetTableId, targetFieldId |-> targetFieldId,
     sourceCardinality |-> sourceCardinality,
     targetCardinality |-> targetCardinality]

Diagram(databaseType, tables, relationships, customTypes) ==
    [databaseType |-> databaseType, tables |-> tables,
     relationships |-> relationships, customTypes |-> customTypes]

\* The longest relationship list of a diagram.
MaxRels == 2

SeqsUpTo(S, n) == UNION {[1..k -> S] : k \in 0..n}

Cardinalities == {"one", "many"}

\* Two tables.  Field ids repeat across the tables: they are unique within a
\* table only.
TableA ==
    Table(T("a"), T("authors"), <<>>, FALSE,
          <<Field(T("f1"), T("id"), T("bigint"), TRUE),
            Field(T("f2"), T("mentor_id"), T("bigint"), FALSE)>>)

TableB(isView) ==
    Table(T("b"), T("book_tag"), T("app"), isView,
          <<Field(T("f1"), T("id"), T("bigint"), TRUE),
            Field(T("f2"), T("author_id"), T("bigint"), FALSE)>>)

\* Relationships whose ids all resolve in <<TableA, TableB>>.
ResolvedRelationships ==
    {Relationship(ends[1], ends[2], ends[3], ends[4], sc, tc) :
        ends \in {<<T("a"), T("f1"), T("a"), T("f2")>>,
                  <<T("a"), T("f1"), T("b"), T("f1")>>,
                  <<T("b"), T("f2"), T("a"), T("f2")>>},
        sc \in Cardinalities, tc \in Cardinalities}

Diagrams ==
    {Diagram("postgresql", <<TableA, TableB(isView)>>, rels, <<>>) :
        isView \in BOOLEAN,
        rels \in SeqsUpTo(ResolvedRelationships, MaxRels)}

\* One table whose primary-key and unique flags vary, beside a table with a
\* single-column key.
KeyTable(pk, uq, isView) ==
    Table(T("e"), T("enrollments"), T("app"), isView,
          <<[Field(T("f1"), T("student_id"), T("bigint"), pk[1])
                EXCEPT !.unique = uq[1], !.nullable = FALSE],
            [Field(T("f2"), T("offering_id"), T("bigint"), pk[2])
                EXCEPT !.unique = uq[2]],
            [Field(T("f3"), T("status"), T("varchar"), pk[3])
                EXCEPT !.unique = uq[3]]>>)

KeyDiagrams ==
    {Diagram("postgresql", <<KeyTable(pk, uq, isView), TableA>>, <<>>, <<>>) :
        pk \in [1..3 -> BOOLEAN], uq \in [1..3 -> BOOLEAN],
        isView \in BOOLEAN}

\* Relationships of which some name a table id or a field id that the
\* diagram does not hold ("zz", "ff").
LooseRelationships ==
    {Relationship(ends[1], ends[2], ends[3], ends[4], sc, tc) :
        ends \in {<<T("a"), T("f1"), T("b"), T("f1")>>,
                  <<T("a"), T("ff"), T("b"), T("f1")>>,
                  <<T("a"), T("f1"), T("b"), T("ff")>>},
        sc \in Cardinalities, tc \in Cardinalities}
    \cup
    {Relationship(T("a"), T("f1"), T("zz"), T("f1"), "one", "many"),
     Relationship(T("zz"), T("f1"), T("b"), T("f1"), "many", "many"),
     Relationship(T("a"), T("f1"), T("a"), T("f2"), "one", "many")}

\* TableA with a type name no resolver knows and an index over a field id
\* the table does not hold.
LooseTableA ==
    [TableA EXCEPT
        !.fields[2].type.name = T("geometry"),
        !.indexes = <<[name |-> T("ix_gone"), unique |-> TRUE,
                       fieldIds |-> <<T("ff")>>, isPrimaryKey |-> FALSE]>>]

LooseDiagrams ==
    {Diagram(databaseType, <<LooseTableA, TableB(isView)>>, rels, <<>>) :
        databaseType \in {"postgresql", "sqlite"}, isView \in BOOLEAN,
        rels \in SeqsUpTo(LooseRelationships, MaxRels)}

\* Diagrams that a caller exports one after the other.
TypedTable(typeNames) ==
    Table(T("t"), T("events"), T("app"), FALSE,
          <<Field(T("f1"), T("id"), typeNames[1], TRUE),
            Field(T("f2"), T("payload"), typeNames[2], FALSE)>>)

MoodEnum ==
    [name |-> T("mood"), kind |-> "enum", values |-> <<T("sad"), T("ok")>>,
     schema |-> <<>>]

CallDiagrams ==
    {Diagram("postgresql", <<>>, <<>>, <<>>),
     Diagram("postgresql", <<TypedTable(<<T("uuid"), T("jsonb")>>)>>, <<>>, <<>>),
     Diagram("postgresql", <<TypedTable(<<T("bigint"), T("mood")>>)>>, <<>>,
             <<MoodEnum>>),
     Diagram("postgresql", <<TypedTable(<<T("bigint"), T("mood")>>)>>, <<>>, <<>>),
     Diagram("mysql", <<TypedTable(<<T("bigint"), T("json")>>)>>, <<>>, <<>>),
     Diagram("postgresql", <<TableA, TableB(FALSE)>>, <<>>, <<>>),
     Diagram("postgresql", <<TableA, TableB(FALSE)>>,
             <<Relationship(T("a"), T("f1"), T("b"), T("f2"), "one", "many")>>,
             <<>>),
     Diagram("postgresql", <<TableA, TableB(FALSE)>>,
             <<Relationship(T("a"), T("f1"), T("b"), T("f1"), "many", "many")>>,
             <<>>),
     Diagram("postgresql", <<TableA, TableB(FALSE)>>,
             <<Relationship(T("a"), T("f1"), T("zz"), T("f1"), "one", "many")>>,
             <<>>)}

-----------------------------------------------------------------------------
(* The dialog and its calls of exportSQLAlchemy *)

DefaultCascade == T("all, delete-orphan")

Cascades == {DefaultCascade, T("save-update")}

NoContainers ==
    [fkByTableField |-> EmptyMap, m2m |-> <<>>, enumTypeMap |-> EmptyMap,
     dialectSymbols |-> NoSymbols]

InitDialog ==
    /\ cascade = DefaultCascade
    /\ code = <<>>
    /\ isLoading = FALSE
    /\ outcome = "none"
    /\ fkByTableField = EmptyMap
    /\ m2m = <<>>
    /\ enumTypeMap = EmptyMap
    /\ dialectSymbols = NoSymbols
    /\ observed = <<>>

Init ==
    /\ diagram \in Diagrams
    /\ InitDialog

\* What a caller that kept an earlier result notes of a later call: whether
\* it was made on another diagram.
noteCall(kept, d) ==
    IF kept # <<>> /\ kept[1].diagram # d
    THEN <<[kept[1] EXCEPT !.others = TRUE]>>
    ELSE kept

\* generate(): exportSQLAlchemy(currentDiagram, { cascade }), then
\* setCode(content).  exportSQLAlchemy declares one parameter, so the
\* options argument is not read.  When the call raises, setCode is skipped
\* and the code stays `kept`.  setIsLoading(true) comes first and the finally
\* block ends with setIsLoading(false), whether or not the call raises.
generate(d, kept) ==
    \E r \in {exportSQLAlchemy(
                  d,
                  [fkByTableField |-> fkByTableField, m2m |-> m2m,
                   enumTypeMap |-> enumTypeMap,
                   dialectSymbols |-> dialectSymbols])} :
        /\ outcome' = r.status
        /\ code' = IF r.status = "returned" THEN r.text ELSE kept
        /\ isLoading' = FALSE
        /\ fkByTableField' = r.fkByTableField
        /\ m2m' = r.m2m
        /\ enumTypeMap' = r.enumTypeMap
        /\ dialectSymbols' = r.dialectSymbols
        /\ observed' = noteCall(observed, d)

\* The dialog opens: the effect clears the code and runs generate.
Open ==
    /\ outcome = "none"
    /\ generate(diagram, <<>>)
    /\ UNCHANGED <<diagram, cascade>>

\* The Regenerate button: generate, over the code on display.
Regenerate ==
    /\ outcome # "none"
    /\ ~isLoading
    /\ generate(diagram, code)
    /\ UNCHANGED <<diagram, cascade>>

\* The cascade input changes: generate is rebuilt, and the effect that
\* depends on it clears the code and runs generate again.
SetCascade(c) ==
    /\ outcome # "none"
    /\ c # cascade
    /\ cascade' = c
    /\ generate(diagram, <<>>)
    /\ UNCHANGED diagram

Next ==
    \/ Open
    \/ Regenerate
    \/ \E c \in Cascades : SetCascade(c)

Spec == Init /\ [][Next]_vars

InitKeys ==
    /\ diagram \in KeyDiagrams
    /\ InitDialog

SpecKeys == InitKeys /\ [][Next]_vars

InitLoose ==
    /\ diagram \in LooseDiagrams
    /\ InitDialog

SpecLoose == InitLoose /\ [][Next]_vars

\* currentDiagram changes: generate is rebuilt, and the effect clears the
\* code and runs generate again on the new diagram.
ChangeDiagram(d) ==
    /\ outcome # "none"
    /\ d # diagram
    /\ diagram' = d
    /\ generate(d, <<>>)
    /\ UNCHANGED cascade

\* A caller keeps the result of the call just made.
Observe ==
    /\ outcome # "none"
    /\ observed = <<>>
    /\ observed' = <<[diagram |-> diagram, outcome |-> outcome, code |-> code,
                      others |-> FALSE]>>
    /\ UNCHANGED <<diagram, cascade, code, isLoading, outcome, fkByTableField, m2m,
                   enumTypeMap, dialectSymbols>>

InitCalls ==
    /\ diagram \in CallDiagrams
    /\ InitDialog

NextCalls ==
    \/ Open
    \/ Regenerate
    \/ Observe
    \/ \E d \in CallDiagrams : ChangeDiagram(d)

SpecCalls == InitCalls /\ [][NextCalls]_vars

\* Diagrams with tables, with an empty table list and with no table list,
\* each with and without relationships and custom types.
TablesChoices(isView) ==
    {<<LooseTableA, TableB(isView)>>, <<TableB(isView)>>, <<>>}

PrologueDiagrams ==
    {Diagram(databaseType, tables, rels, customTypes) :
        databaseType \in {"postgresql", "sqlite"},
        tables \in TablesChoices(TRUE) \cup TablesChoices(FALSE),
        rels \in SeqsUpTo(LooseRelationships, 1),
        customTypes \in {<<>>, <<MoodEnum>>}}
    \cup
    {[databaseType |-> databaseType, relationships |-> rels,
      customTypes |-> customTypes] :
        databaseType \in {"postgresql", "sqlite"},
        rels \in SeqsUpTo(LooseRelationships, 1),
        customTypes \in {<<>>, <<MoodEnum>>}}
    \cup
    {[databaseType |-> "mysql"]}

InitPrologue ==
    /\ diagram \in PrologueDiagrams
    /\ InitDialog

NextPrologue ==
    \/ Open
    \/ Regenerate

SpecPrologue == InitPrologue /\ [][NextPrologue]_vars

\* The most indexes of a table.
MaxIndexes == 2

Index(name, unique, fieldIds, isPrimaryKey) ==
    [name |-> name, unique |-> unique, fieldIds |-> fieldIds,
     isPrimaryKey |-> isPrimaryKey]

\* Field id lists of an index: one field, two fields in either order, a
\* field the table does not hold, alone and beside one it holds.
IndexFieldIds ==
    {<<T("f1")>>, <<T("f3")>>, <<T("f1"), T("f2")>>, <<T("f2"), T("f1")>>,
     <<T("ff")>>, <<T("f3"), T("ff")>>}

\* Index lists; an index is named after its place in the list.
IndexLists ==
    UNION {{[i \in 1..k |->
                Index(T("ix_") \o decimal(i), choice[i][1], choice[i][2],
                      choice[i][3])] :
              choice \in [1..k -> (BOOLEAN \X IndexFieldIds \X {FALSE})
                                  \cup {<<FALSE, <<T("f3")>>, TRUE>>}]} :
           k \in 0..MaxIndexes}

\* A table with no key, a single-column key or a two-column key, whose
\* first and third fields may be flagged unique.
IndexedTable(keys, uq, indexes) ==
    [Table(T("e"), T("enrollments"), T("app"), FALSE,
           <<[Field(T("f1"), T("student_id"), T("bigint"), keys >= 1)
                 EXCEPT !.unique = uq[1]],
             Field(T("f2"), T("offering_id"), T("bigint"), keys >= 2),
             [Field(T("f3"), T("status"), T("varchar"), FALSE)
                 EXCEPT !.unique = uq[2]]>>)
        EXCEPT !.indexes = indexes]

IndexDiagrams ==
    {Diagram("postgresql", <<IndexedTable(keys, uq, indexes)>>, <<>>, <<>>) :
        keys \in 0..2, uq \in [1..2 -> BOOLEAN], indexes \in IndexLists}

InitIndexes ==
    /\ diagram \in IndexDiagrams
    /\ InitDialog

NextIndexes ==
    \/ Open
    \/ Regenerate

SpecIndexes == InitIndexes /\ [][NextIndexes]_vars

\* Diagrams whose relationships are redeclared from their other end.
RedeclaredRelationships ==
    {Relationship(ends[1], ends[2], ends[3], ends[4], sc, tc) :
        ends \in {<<T("a"), T("f1"), T("b"), T("f2")>>},
        sc \in Cardinalities, tc \in Cardinalities}

RedeclaredDiagrams ==
    {Diagram("postgresql", <<TableA, TableB(FALSE)>>, rels, <<>>) :
        rels \in SeqsUpTo(RedeclaredRelationships, MaxRels)}

\* The same relationship declared from its other end: source and target
\* change places, each with its cardinality.
redeclared(rel) ==
    Relationship(rel.targetTableId, rel.targetFieldId, rel.sourceTableId, rel.sourceFieldId, rel.targetCardinality, rel.sourceCardinality)

\* currentDiagram changes to the diagram with its i-th relationship
\* redeclared; the effect clears the code and runs generate on it.
Redeclare(i) ==
    /\ outcome # "none"
    /\ i \in DOMAIN diagram.relationships
    /\ \E d \in {[diagram EXCEPT !.relationships[i] = redeclared(@)]} :
          /\ d # diagram
          /\ diagram' = d
          /\ generate(d, <<>>)
    /\ UNCHANGED cascade

InitRedeclare ==
    /\ diagram \in RedeclaredDiagrams
    /\ InitDialog

NextRedeclare ==
    \/ Open
    \/ Regenerate
    \/ Observe
    \/ \E i \in 1..MaxRels : Redeclare(i)

SpecRedeclare == InitRedeclare /\ [][NextRedeclare]_vars

\* Diagrams of one table of two typed columns, on every dialect family and
\* on a dialect without one: scalar, dialect, array and enum type names, with
\* and without a declared length, an enum named as a built-in type, and a
\* view whose columns carry dialect types.
TypeDiagrams ==
    {Diagram(databaseType,
             <<[TypedTable(<<keyType, T(typeName)>>)
                   EXCEPT !.fields[2].characterMaximumLength = size]>>
             \o (IF withView
                 THEN <<[TypedTable(<<T("inet"), T("set")>>)
                            EXCEPT !.id = T("v"), !.name = T("seen"),
                                   !.isView = TRUE]>>
                 ELSE <<>>),
             <<>>, customTypes) :
        databaseType \in {"postgresql", "mysql", "sql_server", "sqlite"},
        keyType \in {T("bigint"), T("uuid"), T("jsonb[]")},
        typeName \in {"uuid", "UUID", "jsonb", "json", "inet", "money",
                      "nvarchar", "nchar", "ntext", "longtext", "datetime2",
                      "integer", "integer[]", "integer[][]", "uuid[]",
                      "array", "mood", "mood[]"},
        size \in {<<>>, T("50")},
        withView \in BOOLEAN,
        customTypes \in {<<>>, <<MoodEnum>>,
                         <<[MoodEnum EXCEPT !.name = T("integer")]>>}}

InitTypes ==
    /\ diagram \in TypeDiagrams
    /\ InitDialog

NextTypes ==
    \/ Open
    \/ Regenerate

SpecTypes == InitTypes /\ [][NextTypes]_vars

\* Diagrams of one table whose second column varies in name (the two
\* timestamp names, plain, prefixed, capitalised and inside a longer word),
\* in declared default and in the auto-increment flag.
DefaultDiagrams ==
    {Diagram(databaseType,
             <<Table(T("t"), T("events"), T("app"), FALSE,
                     <<Field(T("f1"), T("id"), T("bigint"), TRUE),
                       [Field(T("f2"), T(name), T("timestamp"), FALSE)
                           EXCEPT !.default = T(default),
                                  !.increment = increment]>>)>>,
             <<>>, <<>>) :
        databaseType \in {"postgresql", "sqlite"},
        name \in {"created_at", "updated_at", "row_created_at", "Updated_At",
                  "recreated_at", "updated_atx", "title"},
        default \in {"", "now()", "0", "'x'", "nextval('s')", "  ",
                     "server_default=sa.func.now()"},
        increment \in BOOLEAN}

InitDefaults ==
    /\ diagram \in DefaultDiagrams
    /\ InitDialog

SpecDefaults == InitDefaults /\ [][NextTypes]_vars

-----------------------------------------------------------------------------
(* What the properties below read of a state *)

Returned == outcome = "returned" /\ code # <<>>

Text == code[1]

Rels == diagram.relationships

RenderedTables == {t \in Range(diagram.tables) : ~t.isView}

ClassBlocks == IF Returned THEN Range(Text.classBlocks) ELSE {}

BlocksOf(table) == {i \in DOMAIN Text.classBlocks :
                       Text.classBlocks[i].table = table.id}

\* The kind of a relationship, by its two cardinalities.
RelKind(rel) ==
    IF rel.sourceCardinality = "many" /\ rel.targetCardinality = "many"
    THEN "many_to_many"
    ELSE IF rel.sourceCardinality = "one" /\ rel.targetCardinality = "one"
    THEN "one_to_one"
    ELSE "one_to_many"

SourceEnd(rel) == <<rel.sourceTableId, rel.sourceFieldId>>

TargetEnd(rel) == <<rel.targetTableId, rel.targetFieldId>>

\* The endpoint that holds the foreign key of a relationship that is not
\* many-to-many: the many side, or the source of a one-to-one.
HolderEnd(rel) ==
    IF RelKind(rel) = "one_to_many" /\ rel.targetCardinality = "many"
    THEN TargetEnd(rel) ELSE SourceEnd(rel)

\* The opposite endpoint: the one side, or the target of a one-to-one.
ReferencedEnd(rel) ==
    IF RelKind(rel) = "one_to_many" /\ rel.targetCardinality = "many"
    THEN SourceEnd(rel) ELSE TargetEnd(rel)

TablesWithId(id) == {t \in Range(diagram.tables) : t.id = id}

FieldsWithId(table, id) == {f \in Range(table.fields) : f.id = id}

\* A relationship that names a table id or a field id the diagram lacks.
Dangling(rel) ==
    \/ TablesWithId(rel.sourceTableId) = {}
    \/ TablesWithId(rel.targetTableId) = {}
    \/ \A t \in TablesWithId(rel.sourceTableId) :
          FieldsWithId(t, rel.sourceFieldId) = {}
    \/ \A t \in TablesWithId(rel.targetTableId) :
          FieldsWithId(t, rel.targetFieldId) = {}

\* schema.table.field or table.field of an endpoint that resolves.
EndName(end) ==
    LET t == CHOOSE x \in TablesWithId(end[1]) : TRUE
        f == CHOOSE x \in FieldsWithId(t, end[2]) : TRUE
    IN  (IF t.schema # <<>> THEN t.schema \o <<".">> ELSE <<>>)
        \o t.name \o <<".">> \o f.name

TableName(id) == (CHOOSE x \in TablesWithId(id) : TRUE).name

ForeignKeyArgs(col) ==
    {a \in Range(col.positionalArgs) : startsWith(a, T("sa.ForeignKey(\""))}

Carries(col, kwarg) == kwarg \in Range(col.kwargs)

\* The name of the association table of the relationship at position i.
ExpectedAssocName(i) ==
    pyIdentifier(T("assoc_") \o TableName(Rels[i].sourceTableId) \o <<"_">>
                 \o TableName(Rels[i].targetTableId) \o <<"_">>
                 \o decimal(i - 1))

ManyToManyPositions == {i \in DOMAIN Rels : RelKind(Rels[i]) = "many_to_many"}

-----------------------------------------------------------------------------
(* Properties *)

\* C1: whenever a diagram is exported again, whatever was exported in
\* between, the call ends as the earlier call on that diagram ended and
\* returns the same text.
C1_SameDiagramSameText ==
    (observed # <<>> /\ outcome # "none" /\ observed[1].diagram = diagram)
        => (observed[1].outcome = outcome /\ observed[1].code = code)

\* A diagram with a dialect import is exported again after a call on
\* another diagram.
C1_Witness ==
    /\ observed # <<>>
    /\ observed[1].others
    /\ observed[1].diagram = diagram
    /\ Returned
    /\ ~Text.empty
    /\ Len(Text.importLines) > Len(baseImportLines)

PrimaryKeyClauses(cb) ==
    {j \in DOMAIN cb.tableArgs :
        startsWith(cb.tableArgs[j], T("sa.PrimaryKeyConstraint("))}

KeyNames(table) ==
    LET keys == SelectSeq(table.fields, IsPrimaryKeyField)
    IN  [i \in DOMAIN keys |-> <<"\"">> \o keys[i].name \o <<"\"">>]

KeyCount(table) == Cardinality({i \in DOMAIN table.fields :
                                   table.fields[i].primaryKey})

\* C2: a rendered table with two or more primary-key fields has exactly one
\* PrimaryKeyConstraint, over those field names in declared order, and no
\* column marked primary_key=True; with exactly one primary-key field, that
\* column is marked and there is no PrimaryKeyConstraint.
C2_CompositeKeyIsTableLevel ==
    Returned =>
        \A table \in RenderedTables :
            /\ Cardinality(BlocksOf(table)) = 1
            /\ \A b \in BlocksOf(table) :
                 LET cb == Text.classBlocks[b]
                     marked == {k \in DOMAIN cb.cols :
                                   Carries(cb.cols[k], T("primary_key=True"))}
                 IN  /\ KeyCount(table) >= 2 =>
                          /\ Cardinality(PrimaryKeyClauses(cb)) = 1
                          /\ \A j \in PrimaryKeyClauses(cb) :
                                cb.tableArgs[j] =
                                    T("sa.PrimaryKeyConstraint(")
                                    \o join(KeyNames(table), T(", ")) \o T(")")
                          /\ marked = {}
                     /\ KeyCount(table) = 1 =>
                          /\ PrimaryKeyClauses(cb) = {}
                          /\ marked = {k \in DOMAIN table.fields :
                                          table.fields[k].primaryKey}

\* A rendered table with a three-column key beside one with a single key.
C2_Witness ==
    /\ Returned
    /\ \E table \in RenderedTables : KeyCount(table) = 3
    /\ \E table \in RenderedTables : KeyCount(table) = 1

Claimers(tableId, fieldId) ==
    {i \in DOMAIN Rels :
        /\ RelKind(Rels[i]) # "many_to_many"
        /\ HolderEnd(Rels[i]) = <<tableId, fieldId>>}

\* C3: a column carries a ForeignKey and index=True exactly when a
\* one-to-many relationship has it as its many side or a one-to-one
\* relationship has it as its source; the reference names the opposite
\* endpoint of such a relationship.  A many-to-many relationship gives no
\* column a ForeignKey.
C3_ForeignKeyOnHolder ==
    \A cb \in ClassBlocks :
        \A col \in Range(cb.cols) :
            /\ (ForeignKeyArgs(col) # {}) <=> (Claimers(cb.table, col.field) # {})
            /\ Carries(col, T("index=True")) <=> (Claimers(cb.table, col.field) # {})
            /\ Cardinality(ForeignKeyArgs(col)) <= 1
            /\ \A a \in ForeignKeyArgs(col) :
                  \E i \in Claimers(cb.table, col.field) :
                      a = T("sa.ForeignKey(\"") \o EndName(ReferencedEnd(Rels[i]))
                          \o T("\")")

\* A one-to-many relationship declared from its many side and a
\* many-to-many relationship, in one exported diagram.
C3_Witness ==
    /\ Returned
    /\ \E i \in DOMAIN Rels :
          /\ Rels[i].sourceCardinality = "many"
          /\ Rels[i].targetCardinality = "one"
          /\ \E cb \in ClassBlocks : \E col \in Range(cb.cols) :
                /\ HolderEnd(Rels[i]) = <<cb.table, col.field>>
                /\ ForeignKeyArgs(col) # {}
    /\ ManyToManyPositions # {}

\* C4: with at least one table, a relationship that names an absent table
\* or field id makes the call raise: no text is returned.
C4_DanglingAlwaysRaises ==
    (diagram.tables # <<>> /\ \E i \in DOMAIN Rels : Dangling(Rels[i]))
        => ~Returned

\* C5: when every relationship resolves, the call does not raise.
C5_ResolvedNeverRaises ==
    (\A i \in DOMAIN Rels : ~Dangling(Rels[i])) => outcome # "raised"

\* Text is returned for a diagram whose relationships all resolve, one of
\* them from a table to itself, with a view, a type name that no resolver
\* knows and an index over an absent field.
C5_Witness ==
    /\ Returned
    /\ \A i \in DOMAIN Rels : ~Dangling(Rels[i])
    /\ \E i \in DOMAIN Rels : Rels[i].sourceTableId = Rels[i].targetTableId
    /\ \E t \in RenderedTables : \E f \in Range(t.fields) :
          f.type.name = T("geometry")
    /\ \E t \in Range(diagram.tables) : t.isView
    /\ \E t \in RenderedTables : \E i \in DOMAIN t.indexes :
          \E j \in DOMAIN t.indexes[i].fieldIds :
              FieldsWithId(t, t.indexes[i].fieldIds[j]) = {}

\* C6: for every many-to-many relationship, each participating class has an
\* attribute whose secondary is the association table of that relationship.
C6_SecondaryIsOwnAssociation ==
    Returned =>
        \A i \in ManyToManyPositions :
            \A cb \in ClassBlocks :
                cb.table \in {Rels[i].sourceTableId, Rels[i].targetTableId} =>
                    \E line \in Range(cb.relLines) :
                        /\ line.kind = "many_to_many"
                        /\ line.secondary = ExpectedAssocName(i)

\* The position among ManyToManyPositions: the k-th smallest.
NthManyToMany(k) ==
    CHOOSE i \in ManyToManyPositions :
        Cardinality({j \in ManyToManyPositions : j < i}) = k - 1

\* C7: one association table per many-to-many relationship, in relationship
\* order, and no other; each is named from both table names and the
\* relationship's position among all relationships, so that the names are
\* distinct; each has two columns, both primary-key members, with foreign
\* keys to the two endpoint fields.
C7_OneAssociationPerManyToMany ==
    Returned =>
        /\ Len(Text.assocBlocks) = Cardinality(ManyToManyPositions)
        /\ \A k \in DOMAIN Text.assocBlocks :
             LET block == Text.assocBlocks[k]
                 rel == Rels[NthManyToMany(k)]
             IN  /\ block.name = ExpectedAssocName(NthManyToMany(k))
                 /\ Len(block.columns) = 2
                 /\ block.columns[1].primaryKey /\ block.columns[2].primaryKey
                 /\ block.columns[1].foreignKey = EndName(SourceEnd(rel))
                 /\ block.columns[2].foreignKey = EndName(TargetEnd(rel))
        /\ \A k, l \in DOMAIN Text.assocBlocks :
             k # l => Text.assocBlocks[k].name # Text.assocBlocks[l].name

\* Two many-to-many relationships over the same pair of tables.
C7_Witness ==
    /\ Returned
    /\ Len(Text.assocBlocks) = 2
    /\ \E i, j \in ManyToManyPositions :
          /\ i # j
          /\ Rels[i].sourceTableId = Rels[j].sourceTableId
          /\ Rels[i].targetTableId = Rels[j].targetTableId

\* The sides of a classified relationship that a table occupies.
SidesOf(cls, tableId) ==
    IF cls.kind = "one_to_many"
    THEN {side \in {"one", "many"} :
             (IF side = "one" THEN cls.one.id ELSE cls.many.id) = tableId}
    ELSE {side \in {"a", "b"} :
             (IF side = "a" THEN cls.a.id ELSE cls.b.id) = tableId}

LineTexts(cb) == {lineText(line) : line \in Range(cb.relLines)}

\* C8: in each class block, every relationship gives one attribute line for
\* each side that the table occupies, unless an identical line is already
\* there; no line occurs twice.
C8_OneLinePerSide ==
    Returned =>
        \A cb \in ClassBlocks :
            /\ \A i \in DOMAIN Rels :
                 LET cls == classifyRelationship(Rels[i], diagram.tables)
                 IN  \A side \in SidesOf(cls, cb.table) :
                        lineText(sideLine(cls, side, m2m)) \in LineTexts(cb)
            /\ Cardinality(LineTexts(cb)) = Len(cb.relLines)

\* C9: the cascade written on every one-to-many collection attribute is the
\* dialog's cascade string.
C9_CascadeFollowsOption ==
    Returned =>
        \A cb \in ClassBlocks :
            \A line \in Range(cb.relLines) :
                (line.kind = "one_to_many" /\ line.side = "one")
                    => line.cascade = cascade

\* C10: every relationship attribute declares lazy="selectin"; it carries a
\* cascade, the delete cascade, exactly when it is the collection attribute
\* on the one side of a one-to-many relationship.
C10_LazyAndCascade ==
    \A cb \in ClassBlocks :
        \A line \in Range(cb.relLines) :
            /\ includes(lineText(line), T(", lazy=\"selectin\""))
            /\ includes(lineText(line), T("cascade="))
                   <=> (line.kind = "one_to_many" /\ line.side = "one")
            /\ (line.kind = "one_to_many" /\ line.side = "one")
                   => includes(lineText(line),
                               T(", cascade=\"all, delete-orphan\")"))

\* A one-to-many relationship with both of its sides rendered, beside a
\* relationship of another kind.
C10_Witness ==
    /\ Returned
    /\ \E i \in DOMAIN Rels : RelKind(Rels[i]) # "one_to_many"
    /\ \E cb \in ClassBlocks : \E line \in Range(cb.relLines) :
          line.kind = "one_to_many" /\ line.side = "many"
    /\ \E cb \in ClassBlocks : \E line \in Range(cb.relLines) :
          line.kind = "one_to_many" /\ line.side = "one"


\* Two diagrams that differ at most in the end from which one-to-many
\* relationships are declared.
SameButDeclaration(d1, d2) ==
    /\ d1.databaseType = d2.databaseType
    /\ d1.tables = d2.tables
    /\ d1.customTypes = d2.customTypes
    /\ Len(d1.relationships) = Len(d2.relationships)
    /\ \A i \in DOMAIN d1.relationships :
          \/ d1.relationships[i] = d2.relationships[i]
          \/ /\ RelKind(d1.relationships[i]) = "one_to_many"
             /\ d2.relationships[i] = redeclared(d1.relationships[i])

\* C11: a diagram in which one-to-many relationships are declared from the
\* other end (source and target exchanged with their cardinalities) exports
\* to the same text; a one-to-one or many-to-many relationship is classified
\* with a = source and b = target.
C11_DeclarationOrder ==
    /\ (observed # <<>> /\ outcome # "none"
           /\ SameButDeclaration(observed[1].diagram, diagram))
          => (observed[1].outcome = outcome /\ observed[1].code = code)
    /\ \A i \in DOMAIN Rels :
          RelKind(Rels[i]) # "one_to_many" =>
              LET cls == classifyRelationship(Rels[i], diagram.tables)
              IN  /\ cls.a.id = Rels[i].sourceTableId
                  /\ cls.aField[1].id = Rels[i].sourceFieldId
                  /\ cls.b.id = Rels[i].targetTableId
                  /\ cls.bField[1].id = Rels[i].targetFieldId

\* A one-to-many relationship is exported, kept, redeclared from its other
\* end and exported again, beside a relationship of another kind.
C11_Witness ==
    /\ observed # <<>>
    /\ observed[1].diagram # diagram
    /\ SameButDeclaration(observed[1].diagram, diagram)
    /\ Returned
    /\ \E cb \in ClassBlocks : \E col \in Range(cb.cols) :
          ForeignKeyArgs(col) # {}
    /\ \E i \in DOMAIN Rels : RelKind(Rels[i]) # "one_to_many"

\* The fields of a table that an index names, in the order of its ids.
IsHeld(table, id) == FieldsWithId(table, id) # {}

IndexedFields(table, idx) ==
    LET held == SelectSeq(idx.fieldIds, LAMBDA id : IsHeld(table, id))
    IN  [j \in DOMAIN held |-> CHOOSE f \in FieldsWithId(table, held[j]) : TRUE]

IndexedNames(table, idx) ==
    {IndexedFields(table, idx)[j].name : j \in DOMAIN IndexedFields(table, idx)}

KeyNameSet(table) == {f.name : f \in {g \in Range(table.fields) : g.primaryKey}}

ColumnList(fields) ==
    join([j \in DOMAIN fields |-> <<"\"">> \o fields[j].name \o <<"\"">>],
         T(", "))

\* The entries of __table_args__ that mention the name of an index.
ClausesNaming(cb, idx) ==
    {j \in DOMAIN cb.tableArgs :
        includes(cb.tableArgs[j], <<"\"">> \o idx.name \o <<"\"">>)}

OtherIndexes(table) ==
    {idx \in Range(table.indexes) : ~idx.isPrimaryKey}

\* C12: a non-primary-key index over exactly the primary-key field names
\* gives no entry of __table_args__; a non-unique index over at least one
\* held field and not over exactly the primary-key names gives exactly one
\* entry, sa.Index with its name and columns.
C12_KeyIndexSuppressed ==
    Returned =>
        \A table \in RenderedTables : \A b \in BlocksOf(table) :
            \A idx \in OtherIndexes(table) :
                LET cb == Text.classBlocks[b]
                IN  /\ IndexedNames(table, idx) = KeyNameSet(table)
                          => ClausesNaming(cb, idx) = {}
                    /\ (~idx.unique /\ IndexedNames(table, idx) # {}
                           /\ IndexedNames(table, idx) # KeyNameSet(table))
                          => /\ Cardinality(ClausesNaming(cb, idx)) = 1
                             /\ \A j \in ClausesNaming(cb, idx) :
                                   cb.tableArgs[j] =
                                       T("sa.Index(\"") \o idx.name \o T("\", ")
                                       \o ColumnList(IndexedFields(table, idx))
                                       \o T(")")

\* A two-column key with an index over the same two columns in the other
\* order, beside a non-unique index over another column.
C12_Witness ==
    /\ Returned
    /\ \E table \in RenderedTables :
          /\ Cardinality(KeyNameSet(table)) = 2
          /\ \E idx \in OtherIndexes(table) :
                /\ IndexedNames(table, idx) = KeyNameSet(table)
                /\ Len(idx.fieldIds) = 2
                /\ IndexedFields(table, idx)[1].id = T("f2")
          /\ \E idx \in OtherIndexes(table) :
                /\ ~idx.unique
                /\ IndexedNames(table, idx) \notin {{}, KeyNameSet(table)}

\* Whether the column declaration of a field carries unique=True.
ColumnIsUnique(cb, field) ==
    \E col \in Range(cb.cols) :
        col.field = field.id /\ Carries(col, T("unique=True"))

\* C13: a unique index over a single column whose declaration carries
\* unique=True gives no UniqueConstraint; every other unique index over at
\* least one held field and not over exactly the primary-key names gives
\* exactly one entry, sa.UniqueConstraint over its columns with its name.
C13_UniqueIndexOnce ==
    Returned =>
        \A table \in RenderedTables : \A b \in BlocksOf(table) :
            \A idx \in OtherIndexes(table) :
                LET cb == Text.classBlocks[b]
                    fields == IndexedFields(table, idx)
                IN  (idx.unique /\ fields # <<>>
                        /\ IndexedNames(table, idx) # KeyNameSet(table))
                    => IF Len(fields) = 1 /\ ColumnIsUnique(cb, fields[1])
                       THEN ClausesNaming(cb, idx) = {}
                       ELSE /\ Cardinality(ClausesNaming(cb, idx)) = 1
                            /\ \A j \in ClausesNaming(cb, idx) :
                                  cb.tableArgs[j] =
                                      T("sa.UniqueConstraint(")
                                      \o ColumnList(fields) \o T(", name=\"")
                                      \o idx.name \o T("\")")

\* The string on display.
Document == documentText(Text)

\* C14: a diagram without tables (no table list, or an empty one) exports to
\* the empty string, whatever its relationships and custom types, and does
\* not raise; a diagram with a table that exports without raising gives a
\* text that starts with the eight fixed import lines and holds the Base
\* declaration right after the import lines.
C14_EmptyWithoutTables ==
    outcome # "none" =>
        IF withDefaults(diagram).tables = <<>>
        THEN Returned /\ Document = <<>>
        ELSE Returned =>
                /\ Document # <<>>
                /\ startsWith(Document, join(baseImportLines, T("\n")) \o T("\n"))
                /\ startsWith(Document,
                              join(Text.importLines, T("\n"))
                              \o T("\n\n\nclass Base(DeclarativeBase):\n    pass\n"))

\* A diagram with no table list, a relationship and an enum is exported.
C14_Witness ==
    /\ Returned
    /\ "tables" \notin DOMAIN diagram
    /\ withDefaults(diagram).relationships # <<>>
    /\ withDefaults(diagram).customTypes # <<>>
    /\ Document = <<>>

\* The text of several blocks, each followed by what separates it from the
\* next; the empty string for no block.
BlocksText(texts, separator) ==
    IF texts = <<>> THEN <<>> ELSE join(texts, separator) \o T("\n")

\* C15: there is one class block for each table that is not a view, in the
\* order of the tables, and none for a view; the text is the prologue with
\* the Base declaration, then the association tables in the order of their
\* relationships, then the class blocks.
C15_BlockOrder ==
    Returned =>
        LET rendered == SelectSeq(diagram.tables, LAMBDA t : ~t.isView)
            joined == SelectSeq(Rels, LAMBDA rel : RelKind(rel) = "many_to_many")
        IN  /\ [i \in DOMAIN Text.classBlocks |-> Text.classBlocks[i].table]
                  = [i \in DOMAIN rendered |-> rendered[i].id]
            /\ \A i \in DOMAIN Text.classBlocks :
                  Text.classBlocks[i].tablename = rendered[i].name
            /\ Len(Text.assocBlocks) = Len(joined)
            /\ \A k \in DOMAIN Text.assocBlocks :
                  Text.assocBlocks[k].columns[1].foreignKey
                      = EndName(SourceEnd(joined[k]))
            /\ Document
                  = header(Text.importLines) \o T("\n")
                    \o BlocksText([k \in DOMAIN Text.assocBlocks |->
                                      assocBlockText(Text.assocBlocks[k])],
                                  T("\n"))
                    \o BlocksText([i \in DOMAIN Text.classBlocks |->
                                      classBlockText(Text.classBlocks[i])],
                                  T("\n\n"))
                    \o T("\n")

\* Two association tables, over different columns, and a view beside a
\* rendered table.
C15_Witness ==
    /\ Returned
    /\ Len(Text.assocBlocks) = 2
    /\ Text.assocBlocks[1].columns[1].foreignKey
          # Text.assocBlocks[2].columns[1].foreignKey
    /\ Len(Text.classBlocks) = 1
    /\ Len(diagram.tables) = 2

-----------------------------------------------------------------------------
(* C16: dialect import lines *)

\* The type inside the array constructors of a storage type.
RECURSIVE ElementType(_)
ElementType(saType) ==
    IF startsWith(saType, T("sa.ARRAY(")) /\ endsWith(saType, T(")"))
    THEN ElementType(SubSeq(saType, 10, Len(saType) - 1))
    ELSE saType

\* The storage types of the rendered columns, as written in the text.
StorageTypes ==
    UNION {{cb.cols[j].positionalArgs[1] : j \in DOMAIN cb.cols} :
              cb \in ClassBlocks}

\* The storage types, or array elements, that are not names of sa.
UsedSymbols ==
    {ElementType(s) : s \in StorageTypes} \ 
    {s \in {ElementType(x) : x \in StorageTypes} : startsWith(s, T("sa."))}

\* The module of the dialect family of a database type.
FamilyModule(databaseType) ==
    CASE databaseType = "postgresql" -> <<T("postgresql")>>
      [] databaseType = "mysql" -> <<T("mysql")>>
      [] databaseType = "sql_server" -> <<T("mssql")>>
      [] OTHER -> <<>>

\* The listings of a set of symbols, each once, in increasing order.
Listings(S) ==
    {join(s, T(", ")) : s \in {q \in [1..Cardinality(S) -> S] :
        \A i, j \in DOMAIN q : i < j => textLess(q[i], q[j])}}

DialectLines ==
    SubSeq(Text.importLines, Len(baseImportLines) + 1, Len(Text.importLines))

\* C16: the import lines that follow the fixed ones are: none when no rendered
\* column has a dialect type, else the one line of the diagram's dialect
\* family, which lists exactly the dialect types that a rendered column has as
\* its storage type or as the element of its array, each once, in increasing
\* order.
C16_DialectImports ==
    Returned =>
        IF UsedSymbols = {} THEN DialectLines = <<>>
        ELSE /\ FamilyModule(diagram.databaseType) # <<>>
             /\ Len(DialectLines) = 1
             /\ \E listing \in Listings(UsedSymbols) :
                    DialectLines[1] =
                        T("from sqlalchemy.dialects.")
                        \o FamilyModule(diagram.databaseType)[1]
                        \o T(" import ") \o listing

\* Two symbols of one family, one of them an array element, beside a view
\* whose dialect types are not listed.
C16_Witness ==
    /\ Returned
    /\ Cardinality(UsedSymbols) = 2
    /\ \E s \in StorageTypes : ElementType(s) # s /\ ElementType(s) \in UsedSymbols
    /\ \E t \in Range(diagram.tables) : t.isView
    /\ Len(DialectLines) = 1

-----------------------------------------------------------------------------
(* C17: uuid and json columns *)

\* The names under which the diagram registers an enum.
RegisteredEnumNames ==
    {ct.name : ct \in {c \in Range(withDefaults(diagram).customTypes) :
                          c.kind = "enum" /\ c.values # <<>>}}

\* The fields of the rendered tables, each with its column in the text.
FieldColumns ==
    UNION {{<<p[1].fields[j], p[2].cols[j]>> : j \in DOMAIN p[1].fields} :
              p \in {q \in RenderedTables \X ClassBlocks : q[2].table = q[1].id}}

\* The letters of a declared type name, in lower case.
Declared(field) ==
    [i \in DOMAIN field.type.name |-> toLowerCaseChar(field.type.name[i])]

StorageType(col) == col.positionalArgs[1]

UuidStorage(databaseType) ==
    CASE databaseType = "postgresql" -> T("UUID")
      [] databaseType = "sql_server" -> T("UNIQUEIDENTIFIER")
      [] OTHER -> T("sa.String")

JsonStorage(databaseType) ==
    CASE databaseType = "postgresql" -> T("JSONB")
      [] databaseType = "mysql" -> T("JSON")
      [] OTHER -> T("sa.JSON")

-----------------------------------------------------------------------------
(* C18: enum columns *)

RegisteredEnum(name) ==
    CHOOSE ct \in Range(withDefaults(diagram).customTypes) :
        ct.kind = "enum" /\ ct.values # <<>> /\ ct.name = name

\* sa.Enum with the quoted values in their order, the name and the schema.
EnumStorage(ct) ==
    T("sa.Enum(")
    \o join([i \in DOMAIN ct.values |-> <<"\"">> \o ct.values[i] \o <<"\"">>],
            T(", "))
    \o T(", name=\"") \o ct.name \o T("\"")
    \o (IF ct.schema # <<>> THEN T(", schema=\"") \o ct.schema \o T("\"")
        ELSE <<>>)
    \o T(")")

\* C18: a column whose declared type is the name of a registered enum has
\* the storage type sa.Enum of the values, the name and the schema, and the
\* annotation str, also when a built-in type has that name; a column declared
\* as an array of a registered enum has sa.ARRAY of that sa.Enum and the
\* annotation list[str].
C18_EnumFirst ==
    Returned =>
        \A p \in FieldColumns :
            /\ p[1].type.name \in RegisteredEnumNames =>
                   /\ StorageType(p[2]) =
                          EnumStorage(RegisteredEnum(p[1].type.name))
                   /\ p[2].annot = T("str")
            /\ \A name \in RegisteredEnumNames :
                   p[1].type.name = name \o T("[]") =>
                       /\ StorageType(p[2]) =
                              T("sa.ARRAY(") \o EnumStorage(RegisteredEnum(name))
                              \o T(")")
                       /\ p[2].annot = T("list[str]")

-----------------------------------------------------------------------------
(* C19: Unicode strings of SQL Server *)

\* C19: on SQL Server a column declared nvarchar, nchar or ntext has the
\* storage type sa.Unicode(n) when it declares the length n, and
\* sa.UnicodeText when it declares none; on another dialect it has sa.String,
\* with or without a length.
C19_UnicodeOnSqlServer ==
    Returned =>
        \A p \in FieldColumns :
            Declared(p[1]) \in {T("nvarchar"), T("nchar"), T("ntext")} =>
                IF diagram.databaseType = "sql_server"
                THEN StorageType(p[2]) =
                         IF p[1].characterMaximumLength # <<>>
                         THEN T("sa.Unicode(") \o p[1].characterMaximumLength
                              \o T(")")
                         ELSE T("sa.UnicodeText")
                ELSE startsWith(StorageType(p[2]), T("sa.String"))

-----------------------------------------------------------------------------
(* C20: array columns *)

\* The declared name less one array marker.
Stripped(field) == SubSeq(Declared(field), 1, Len(Declared(field)) - 2)

\* The storage type and the annotation of the element names uuid, jsonb and
\* integer, when none is the name of a registered enum.
ElementStorage(name, databaseType) ==
    CASE name = T("uuid") -> UuidStorage(databaseType)
      [] name = T("jsonb") -> JsonStorage(databaseType)
      [] name = T("integer") -> T("sa.Integer")

ElementAnnotation(name) ==
    CASE name = T("uuid") -> T("str")
      [] name = T("jsonb") -> T("dict[str, Any]")
      [] name = T("integer") -> T("int")

\* C20: a column whose declared name ends in the array marker has the storage
\* type sa.ARRAY(E) and the annotation list[A], where E holds no further
\* sa.ARRAY and A no further list, and E and A are the storage type and the
\* annotation of the name less one marker; a column declared array has
\* sa.ARRAY(sa.Text) and list[str].
C20_OneLevelArrays ==
    Returned =>
        \A p \in FieldColumns :
            /\ /\ Stripped(p[1]) \in {T("uuid"), T("jsonb"), T("integer")}
               /\ endsWith(Declared(p[1]), T("[]"))
               /\ Stripped(p[1]) \notin RegisteredEnumNames
               => /\ StorageType(p[2]) =
                         T("sa.ARRAY(")
                         \o ElementStorage(Stripped(p[1]), diagram.databaseType)
                         \o T(")")
                  /\ p[2].annot =
                         T("list[") \o ElementAnnotation(Stripped(p[1]))
                         \o T("]")
            /\ endsWith(Declared(p[1]), T("[]")) =>
                   /\ startsWith(StorageType(p[2]), T("sa.ARRAY("))
                   /\ ~includes(Tail(StorageType(p[2])), T("sa.ARRAY("))
                   /\ startsWith(p[2].annot, T("list["))
                   /\ ~includes(Tail(p[2].annot), T("list["))
            /\ Declared(p[1]) = T("array") =>
                   /\ StorageType(p[2]) = T("sa.ARRAY(sa.Text)")
                   /\ p[2].annot = T("list[str]")

-----------------------------------------------------------------------------
(* C21: server defaults *)

\* The keyword arguments of a column that start with a text.
KwargsStarting(col, text) ==
    {j \in DOMAIN col.kwargs : startsWith(col.kwargs[j], text)}

\* The name of a field is the word, or ends in an underscore and the word,
\* in any case.
NamedLike(field, word) ==
    LET lower == [i \in DOMAIN field.name |-> toLowerCaseChar(field.name[i])]
    IN  \/ lower = word
        \/ /\ Len(lower) > Len(word)
           /\ SubSeq(lower, Len(lower) - Len(word), Len(lower)) = <<"_">> \o word

\* C21: a column has at most one server_default; it has one made of the
\* declared default exactly when the field declares a default and is not
\* auto-increment; it has server_default=sa.func.now() exactly when the field
\* declares no default and is named like created_at or updated_at, and
\* onupdate=sa.func.now() exactly when it declares none and is named like
\* updated_at.
C21_OneServerDefault ==
    Returned =>
        \A p \in FieldColumns :
            /\ Cardinality(KwargsStarting(p[2], T("server_default="))) <= 1
            /\ KwargsStarting(p[2], T("server_default=sa.text(")) # {}
                   <=> (p[1].default # <<>> /\ ~p[1].increment)
            /\ T("server_default=sa.func.now()") \in Range(p[2].kwargs)
                   <=> /\ p[1].default = <<>>
                       /\ \/ NamedLike(p[1], T("created_at"))
                          \/ NamedLike(p[1], T("updated_at"))
            /\ T("onupdate=sa.func.now()") \in Range(p[2].kwargs)
                   <=> (p[1].default = <<>> /\ NamedLike(p[1], T("updated_at")))

\* A column named updated_at with a declared default: the clause of the
\* default and no heuristic.
C21_Witness ==
    /\ Returned
    /\ \E p \in FieldColumns :
           /\ NamedLike(p[1], T("updated_at"))
           /\ p[1].default = T("now()")
           /\ ~p[1].increment
           /\ KwargsStarting(p[2], T("server_default=")) # {}
           /\ KwargsStarting(p[2], T("onupdate=")) = {}

-----------------------------------------------------------------------------
(* C22: a holder claimed by several relationships *)

LastClaimer(tableId, fieldId) ==
    CHOOSE i \in Claimers(tableId, fieldId) :
        \A j \in Claimers(tableId, fieldId) : j <= i

\* C22: a column that several relationships make the holder of a foreign key
\* carries one sa.ForeignKey, which names the opposite endpoint of the last
\* of those relationships in the order of the relationship list.
C22_LastRegistrationWins ==
    \A cb \in ClassBlocks :
        \A col \in Range(cb.cols) :
            Claimers(cb.table, col.field) # {} =>
                ForeignKeyArgs(col) =
                    {T("sa.ForeignKey(\"")
                     \o EndName(ReferencedEnd(Rels[LastClaimer(cb.table, col.field)]))
                     \o T("\")")}

\* A column claimed by two relationships that reference different columns.
C22_Witness ==
    /\ Returned
    /\ \E cb \in ClassBlocks : \E col \in Range(cb.cols) :
          \E i, j \in Claimers(cb.table, col.field) :
              /\ i < j
              /\ EndName(ReferencedEnd(Rels[i])) # EndName(ReferencedEnd(Rels[j]))
              /\ Len(col.positionalArgs) = 2

-----------------------------------------------------------------------------
(* C23: the display of the dialog *)

\* What the dialog shows for its code state (lines 122-140).
Display ==
    IF code = <<>> THEN "Preparing SQLAlchemy models"
    ELSE IF code[1].empty THEN "No content to export."
    ELSE "code"

\* C23: when a generation request has ended (on opening, on Regenerate, on
\* a change of diagram), isLoading is false and the display is out of the
\* preparing state: the notice of no content for a diagram without tables,
\* the code otherwise, also when the call raised.
C23_RequestsEnd ==
    outcome # "none" =>
        /\ ~isLoading
        /\ Display = IF diagram.tables = <<>>
                     THEN "No content to export." ELSE "code"

-----------------------------------------------------------------------------
(* C24: back-references *)

\* C24: for every relationship attribute X of a class C, with target class D
\* and back_populates Y, there is a class block of D with a relationship
\* attribute Y whose target is C and whose back_populates is X.
C24_ReciprocalBackReferences ==
    Returned =>
        \A cb \in ClassBlocks :
            \A line \in Range(cb.relLines) :
                \E cd \in ClassBlocks :
                    /\ cd.className = line.targetClass
                    /\ \E back \in Range(cd.relLines) :
                          /\ back.attr = line.backPopulates
                          /\ back.targetClass = cb.className
                          /\ back.backPopulates = line.attr

-----------------------------------------------------------------------------
(* C25: attribute names of a class *)

\* The attribute names that a class block binds, in the order of its lines.
AttributeNames(cb) ==
    [j \in DOMAIN cb.cols |-> cb.cols[j].name]
    \o [j \in DOMAIN cb.relLines |-> cb.relLines[j].attr]

\* C25: the column attributes and the relationship attributes of a class
\* block have pairwise distinct names.
C25_DistinctAttributeNames ==
    Returned =>
        \A cb \in ClassBlocks :
            \A j, k \in DOMAIN AttributeNames(cb) :
                j # k => AttributeNames(cb)[j] # AttributeNames(cb)[k]

-----------------------------------------------------------------------------
(* C26: uniqueness after deduplication *)

\* The entries of __table_args__ that are a UniqueConstraint of an index of
\* the table over exactly a set of column names.
UniqueClausesOver(cb, table, names) ==
    {j \in DOMAIN cb.tableArgs :
        \E idx \in OtherIndexes(table) :
            /\ IndexedNames(table, idx) = names
            /\ cb.tableArgs[j] =
                   T("sa.UniqueConstraint(")
                   \o ColumnList(IndexedFields(table, idx))
                   \o T(", name=\"") \o idx.name \o T("\")")}

\* Whether a class block makes a set of column names unique: unique=True or
\* primary_key=True on the single column, a UniqueConstraint over the
\* columns, or the PrimaryKeyConstraint when the columns are the key.
EnforcesUnique(cb, table, names) ==
    \/ \E col \in Range(cb.cols) :
          /\ names = {f.name : f \in FieldsWithId(table, col.field)}
          /\ Carries(col, T("unique=True")) \/ Carries(col, T("primary_key=True"))
    \/ UniqueClausesOver(cb, table, names) # {}
    \/ names = KeyNameSet(table) /\ PrimaryKeyClauses(cb) # {}

\* C26: in the class block of a table, every field flagged unique is made
\* unique on its own, and every unique index that is not a primary-key index
\* and resolves a field is made unique over the names of its fields.
C26_UniquenessKept ==
    Returned =>
        \A table \in RenderedTables : \A b \in BlocksOf(table) :
            /\ \A f \in Range(table.fields) :
                  f.unique => EnforcesUnique(Text.classBlocks[b], table, {f.name})
            /\ \A idx \in OtherIndexes(table) :
                  (idx.unique /\ IndexedNames(table, idx) # {})
                      => EnforcesUnique(Text.classBlocks[b], table,
                                        IndexedNames(table, idx))

-----------------------------------------------------------------------------
(* C27: foreign-key references *)

\* The table name of a class block as the block declares it: the schema of
\* its __table_args__, if it has one, a dot, and __tablename__.
DeclaredTable(cb) ==
    LET schemaArgs == {j \in DOMAIN cb.tableArgs :
                          startsWith(cb.tableArgs[j], T("{\"schema\": \""))}
    IN  (IF schemaArgs = {} THEN <<>>
         ELSE LET arg == cb.tableArgs[CHOOSE j \in schemaArgs : TRUE]
              IN  SubSeq(arg, 13, Len(arg) - 2) \o <<".">>)
        \o cb.tablename

\* The references of the text: the targets of sa.ForeignKey on the columns
\* of the class blocks and of the association tables.
References ==
    UNION {UNION {{SubSeq(a, 16, Len(a) - 2) : a \in ForeignKeyArgs(col)} :
                     col \in Range(cb.cols)} : cb \in ClassBlocks}
    \cup UNION {{block.columns[c].foreignKey : c \in DOMAIN block.columns} :
                   block \in Range(Text.assocBlocks)}

\* C27: every foreign-key reference of the text is the declared table name
\* of a class block of the text, a dot and a column name.
C27_ReferencesDeclaredTables ==
    Returned =>
        \A ref \in References :
            \E cb \in ClassBlocks :
                /\ startsWith(ref, DeclaredTable(cb) \o <<".">>)
                /\ "." \notin Range(SubSeq(ref, Len(DeclaredTable(cb)) + 2, Len(ref)))

-----------------------------------------------------------------------------
(* C28: columns of an association table *)

\* C28: the two columns of every association table have different names.
C28_DistinctAssociationColumns ==
    Returned =>
        \A k \in DOMAIN Text.assocBlocks :
            Text.assocBlocks[k].columns[1].name
                # Text.assocBlocks[k].columns[2].name
=============================================================================
